---- MODULE Spec2Model ----
(***************************************************************************)
(* Verification model of dexfra-agent: the x402 payment-gated fetch        *)
(* (packages/core/src/tools/fetch.ts) and the data it handles.             *)
(***************************************************************************)
EXTENDS Integers, Sequences, FiniteSets, TLC

(***************************************************************************)
(* Arbitrary-precision naturals (JavaScript BigInt, and the 53-bit         *)
(* significands of JavaScript numbers).  A natural is a little-endian      *)
(* sequence of limbs in base BigBase without a leading zero limb; <<>> is  *)
(* zero.                                                                   *)
(***************************************************************************)
LimbBits == 10

BigBase == 1024

RECURSIVE Pow2(_)
Pow2(k) == IF k = 0 THEN 1 ELSE 2 * Pow2(k - 1)

RECURSIVE Pow10(_)
Pow10(k) == IF k = 0 THEN 1 ELSE 10 * Pow10(k - 1)

RECURSIVE BitLen(_)
BitLen(n) == IF n = 0 THEN 0 ELSE 1 + BitLen(n \div 2)

RECURSIVE BigFromNat(_)
BigFromNat(n) ==
  IF n = 0 THEN <<>> ELSE <<n % BigBase>> \o BigFromNat(n \div BigBase)

RECURSIVE BigToNat(_)
BigToNat(a) ==
  IF a = <<>> THEN 0 ELSE Head(a) + BigBase * BigToNat(Tail(a))

RECURSIVE BigAddSmall(_, _)
BigAddSmall(a, k) ==
  IF k = 0 THEN a
  ELSE IF a = <<>> THEN BigFromNat(k)
  ELSE LET t == Head(a) + k
       IN <<t % BigBase>> \o BigAddSmall(Tail(a), t \div BigBase)

RECURSIVE BigMulCarry(_, _, _)
BigMulCarry(a, k, carry) ==
  IF a = <<>> THEN BigFromNat(carry)
  ELSE LET t == Head(a) * k + carry
       IN <<t % BigBase>> \o BigMulCarry(Tail(a), k, t \div BigBase)

\* a * k for a small factor k (k <= 2^20 keeps every step below 2^31)
BigMulSmall(a, k) == IF k = 0 THEN <<>> ELSE BigMulCarry(a, k, 0)

\* quotient and remainder of a by a small divisor d (d <= 2^20)
RECURSIVE BigDivMod(_, _)
BigDivMod(a, d) ==
  IF a = <<>> THEN [q |-> <<>>, r |-> 0]
  ELSE LET hi == BigDivMod(Tail(a), d)
           t  == hi.r * BigBase + Head(a)
           ql == t \div d
       IN [q |-> IF hi.q = <<>> /\ ql = 0 THEN <<>> ELSE <<ql>> \o hi.q,
           r |-> t % d]

RECURSIVE BigShl(_, _)
BigShl(a, s) ==
  IF a = <<>> THEN <<>>
  ELSE IF s >= LimbBits THEN <<0>> \o BigShl(a, s - LimbBits)
  ELSE BigMulSmall(a, Pow2(s))

RECURSIVE BigShr(_, _)
BigShr(a, s) ==
  IF a = <<>> THEN <<>>
  ELSE IF s >= LimbBits THEN BigShr(Tail(a), s - LimbBits)
  ELSE BigDivMod(a, Pow2(s)).q

BigBitLen(a) ==
  IF a = <<>> THEN 0 ELSE (Len(a) - 1) * LimbBits + BitLen(a[Len(a)])

BigIsOdd(a) == a # <<>> /\ Head(a) % 2 = 1

\* -1, 0, 1 as a < b, a = b, a > b
RECURSIVE BigCmp(_, _)
BigCmp(a, b) ==
  IF Len(a) # Len(b) THEN (IF Len(a) > Len(b) THEN 1 ELSE -1)
  ELSE IF a = <<>> THEN 0
  ELSE LET n == Len(a)
       IN IF a[n] > b[n] THEN 1
          ELSE IF a[n] < b[n] THEN -1
          ELSE BigCmp(SubSeq(a, 1, n - 1), SubSeq(b, 1, n - 1))

BigGT(a, b) == BigCmp(a, b) = 1

(***************************************************************************)
(* JavaScript numbers (IEEE 754 binary64), non-negative and finite: the    *)
(* value is m * 2^e with a significand m of exactly SignificandBits bits   *)
(* (or m = <<>> for zero).  Every operation rounds to nearest, ties to     *)
(* even, as the language does.                                             *)
(***************************************************************************)
SignificandBits == 53

\* round the exact value (q + r/d) * 2^e to a number; q has SignificandBits bits
RoundNearestEven(q, r, d, e) ==
  LET up == (2 * r > d) \/ (2 * r = d /\ BigIsOdd(q))
      m  == IF up THEN BigAddSmall(q, 1) ELSE q
  IN IF BigBitLen(m) > SignificandBits
       THEN [m |-> BigShr(m, 1), e |-> e + 1]
       ELSE [m |-> m, e |-> e]

\* the number a numeric literal num/den denotes (den <= 2^19, num < 2^31)
NumberOf(num, den) ==
  IF num = 0 THEN [m |-> <<>>, e |-> 0]
  ELSE LET k0 == SignificandBits + BitLen(den) - BitLen(num)
           q0 == BigDivMod(BigShl(BigFromNat(num), k0), den).q
           k  == IF BigBitLen(q0) > SignificandBits THEN k0 - 1 ELSE k0
           dm == BigDivMod(BigShl(BigFromNat(num), k), den)
       IN RoundNearestEven(dm.q, dm.r, den, 0 - k)

\* x * k for a number x and an exactly representable integer k <= 2^20
NumberTimes(x, k) ==
  IF x.m = <<>> \/ k = 0 THEN [m |-> <<>>, e |-> 0]
  ELSE LET p  == BigMulSmall(x.m, k)
           s  == BigBitLen(p) - SignificandBits
           dm == BigDivMod(p, Pow2(s))
       IN RoundNearestEven(dm.q, dm.r, Pow2(s), x.e + s)

\* Math.floor of a non-negative number, as an exact integer
MathFloor(x) ==
  IF x.e >= 0 THEN BigShl(x.m, x.e) ELSE BigShr(x.m, 0 - x.e)


(***************************************************************************)
(* Strings are sequences of one-character strings.                         *)
(***************************************************************************)
Digits == <<"0", "1", "2", "3", "4", "5", "6", "7", "8", "9">>

IsDigit(ch) == \E i \in 1..Len(Digits) : Digits[i] = ch

DigitVal(ch) == (CHOOSE i \in 1..Len(Digits) : Digits[i] = ch) - 1

\* BigInt(string) accepts a decimal integer literal, otherwise SyntaxError
BigIntSyntaxOk(str) == \A i \in 1..Len(str) : IsDigit(str[i])

RECURSIVE BigIntFromDigits(_, _)
BigIntFromDigits(str, acc) ==
  IF str = <<>> THEN acc
  ELSE BigIntFromDigits(Tail(str),
                        BigAddSmall(BigMulSmall(acc, 10), DigitVal(Head(str))))

BigIntOfString(str) == BigIntFromDigits(str, <<>>)

\* BigInt.prototype.toString(): decimal digits, most significant first
RECURSIVE BigDigits(_)
BigDigits(a) ==
  IF a = <<>> THEN <<>>
  ELSE LET dm == BigDivMod(a, 10) IN BigDigits(dm.q) \o <<Digits[dm.r + 1]>>

BigIntToString(a) == IF a = <<>> THEN <<"0">> ELSE BigDigits(a)

LowerChar(ch) ==
  CASE ch = "A" -> "a"
    [] ch = "B" -> "b"
    [] ch = "C" -> "c"
    [] OTHER -> ch

\* String.prototype.toLowerCase()
toLowerCase(s) == [i \in 1..Len(s) |-> LowerChar(s[i])]

(***************************************************************************)
(* constants.ts / fetch.ts                                                 *)
(***************************************************************************)
USDC_DECIMALS == 6

\* BigInt(Math.floor(amount * Math.pow(10, USDC_DECIMALS)))
parseUSDCAmount(amount) ==
  MathFloor(NumberTimes(amount, Pow10(USDC_DECIMALS)))

(***************************************************************************)
(* Bounds of the model                                                     *)
(***************************************************************************)
\* longest accepts list a 402 challenge carries
MaxOffers == 2

\* number of distinct values Date.now() may return
MaxClock == 1

(***************************************************************************)
(* Data: types/dexfra.ts                                                   *)
(***************************************************************************)
\* the invocations of dexfraFetch that may be made
Calls == {"c1", "c2"}

None == <<>>

Some(x) == <<x>>

\* X402PaymentRequirement
Offer(network, maxAmountRequired) ==
  [scheme |-> "exact", network |-> network, recipient |-> "merchant",
   maxAmountRequired |-> maxAmountRequired, token |-> "USDC"]

Offers ==
  { Offer(<<"A">>, <<"2", "4", "9">>),
    Offer(<<"A">>, <<"2", "0", "0", "0", "0", "0", "0">>),
    Offer(<<"b">>, <<"1", "0", "0", "0", "0", "0", "0">>),
    Offer(<<"b">>, <<"2", "0", "0", "0", "0", "0", "0">>) }

RECURSIVE SeqsUpTo(_, _)
SeqsUpTo(S, n) ==
  IF n = 0 THEN {<<>>}
  ELSE LET shorter == SeqsUpTo(S, n - 1)
       IN shorter \cup {Append(q, x) : q \in {r \in shorter : Len(r) = n - 1}, x \in S}

OfferLists == SeqsUpTo(Offers, MaxOffers)

\* the body of a 402 response, as response.json() sees it:
\*   json = "invalid"  the text is not JSON
\*   json = "null"     the text is the JSON value null
\*   json = "object"   a JSON object; x402Version is None when the member
\*                     is absent; acceptsKind tells whether accepts is
\*                     absent, present but no array, or an array
Body(json, version, kind, accepts) ==
  [json |-> json, x402Version |-> version, acceptsKind |-> kind, accepts |-> accepts]

NoBody == Body("none", None, "undefined", <<>>)

ChallengeBodies ==
  {Body("invalid", None, "undefined", <<>>), Body("null", None, "undefined", <<>>)}
  \cup {Body("object", v, k, <<>>) : v \in {None, Some(1)}, k \in {"undefined", "other"}}
  \cup {Body("object", None, "array", l) : l \in {r \in OfferLists : Len(r) <= 1}}
  \cup {Body("object", Some(1), "array", l) : l \in OfferLists}

\* the x-payment-response header of a response:
\*   "absent"     no such header (headers.get returns null)
\*   "empty"      the empty string
\*   "notBase64"  atob rejects it
\*   "notJson"    decodes, but JSON.parse rejects the text
\*   "json"       decodes and parses to `value`
SettlementValues == {"null", "zero", "one", "emptyObject", "record"}

SettlementHeaders ==
  {[kind |-> k, value |-> "null"] : k \in {"absent", "empty", "notBase64", "notJson"}}
  \cup {[kind |-> "json", value |-> v] : v \in SettlementValues}

NoHeader == [kind |-> "absent", value |-> "null"]

\* Response
Statuses == {200, 402, 500}

Response(id, status, body, settlement) ==
  [id |-> id, status |-> status, body |-> body, settlement |-> settlement]

ProbeResponses ==
  {Response("probe", st, NoBody, NoHeader) : st \in Statuses \ {402}}
  \cup {Response("probe", 402, b, NoHeader) : b \in ChallengeBodies}

PaidResponses ==
  {Response("paid", st, NoBody, h) : st \in Statuses \ {402}, h \in SettlementHeaders}
  \cup {Response("paid", 402, NoBody, NoHeader)}

\* config.maxAmount: undefined, or the number written as micros / 10^6
CeilingMicros == {249, 1000000}

MaxAmounts ==
  {None} \cup {Some(NumberOf(n, Pow10(USDC_DECIMALS))) : n \in CeilingMicros}

ConfigNetworks == {<<"a">>, <<"B">>}

\* DexfraFetchConfig; a callback is either absent (FALSE) or supplied (TRUE)
Configs ==
  [network : ConfigNetworks, maxAmount : MaxAmounts,
   onPaymentRequired : BOOLEAN, onPaymentSuccess : BOOLEAN,
   onPaymentError : BOOLEAN]

\* what a supplied callback does when it is invoked
CallbackOutcomes == {"returns", "throwsError", "throwsDexfraError"}

Timestamps == 1..MaxClock

\* errors: DexfraError and its subclasses, and everything else
Err(class, code, origin) ==
  [class |-> class, code |-> code, origin |-> origin, wraps |-> "",
   required |-> <<>>, max |-> <<>>, amount |-> <<>>, requirements |-> <<>>]

DexfraError(code, origin) == Err("DexfraError", code, origin)

PaymentRequiredError(amount, requirements) ==
  [Err("PaymentRequiredError", "PAYMENT_REQUIRED", "dexfraFetch")
     EXCEPT !.amount = amount, !.requirements = requirements]

MaxAmountExceededError(required, max) ==
  [Err("MaxAmountExceededError", "MAX_AMOUNT_EXCEEDED", "dexfraFetch")
     EXCEPT !.required = required, !.max = max]

\* error instanceof DexfraError
IsDexfraError(e) ==
  e.class \in {"DexfraError", "PaymentRequiredError", "MaxAmountExceededError"}

\* what a throwing callback throws
CallbackError(name, out) ==
  IF out = "throwsDexfraError" THEN DexfraError("CALLBACK", name)
  ELSE Err("Error", "", name)

(***************************************************************************)
(* State: one dexfraFetch invocation per element of Calls                  *)
(***************************************************************************)
VARIABLES
  pc,             \* where the invocation stands
  config,         \* its DexfraFetchConfig argument
  headers,        \* the Headers object built at fetch.ts:115
  netLog,         \* the requests handed to fetch(), in order
  response,       \* the initial response
  challenge,      \* paymentRequiredData
  selected,       \* selectedRequirement
  maxAmountWei,   \* the ceiling in base units computed by the guard
  proof,          \* paymentHeader
  paidResponse,   \* the response to the paid retry
  cbLog,          \* the callback invocations, in order
  walletLog,      \* the operations invoked on config.wallet, in order
  outcome         \* what the invocation gave its caller

fetchVars ==
  <<pc, config, headers, netLog, response, challenge, selected, maxAmountWei,
    proof, paidResponse, cbLog, walletLog, outcome>>

\* State of an AdapterWallet (wallet.ts:94-131) and of the adapter it wraps
VARIABLES
  adapter,        \* the constructor argument: publicKey and the operations it has
  wallet,         \* "none", "constructed", or "rejected" when the constructor threw
  adapterCalls,   \* the operations invoked on the adapter, in order
  walletOut       \* what each call on the AdapterWallet gave its caller, in order

walletVars == <<adapter, wallet, adapterCalls, walletOut>>

\* State of the Vercel AI adapter (adapter-vercel/tsup.config.ts)
VARIABLES
  actions,        \* agent.actions
  tools,          \* what createVercelAITools returned
  singleTool,     \* what createVercelAITool returned
  toolStats,      \* what getToolStats returned
  execution       \* the call of a tool's execute: action, handler and result

toolVars == <<actions, tools, singleTool, toolStats, execution>>

\* State of one header on its way: a settlement header from the server,
\* which encodes it, to parseSettlementResponse (fetch.ts:93-105), or an
\* x-payment header from createPaymentHeader (fetch.ts:31-68) to the server,
\* which decodes it
VARIABLES
  codecPc,        \* "idle"; "encode", "decode"; "build", "check"; "done"
  settled,        \* the settlement record the server reports
  offered,        \* the arguments of createPaymentHeader
  wire,           \* the value of the header
  parsed          \* what the reader of the header made of it

codecVars == <<codecPc, settled, offered, wire, parsed>>

\* State of one run of the action discover_dexfra_apis: its handler
\* (actions/discoverAPIs.ts:176-192), DexfraAgentKit.discoverAPIs and the
\* tool discoverAPIs (tools/discovery.ts:17-60)
VARIABLES
  discoveryPc,    \* "idle", "handler", "search", "await" or "done"
  params,         \* the params the handler is given
  filters,        \* the filters the handler passes on
  query,          \* the query parameters of the request, in the order set
  listing,        \* what the marketplace answered
  discovery       \* what the handler returned or threw

discoveryVars == <<discoveryPc, params, filters, query, listing, discovery>>

\* State of a DexfraAgentKit (client.ts:44-77) and the history of the calls
\* of use made on it
VARIABLES
  plugins,        \* this.plugins: the entries of the Map, in insertion order
  methods,        \* this.methods: for each key, the plugin its value is bound to
  agentActions,   \* this.actions
  uses            \* the calls of use so far, and how each ended

kitVars == <<plugins, methods, agentActions, uses>>

\* the state of the other components, which dexfraFetch never touches
beyondFetch == <<walletVars, toolVars, codecVars, discoveryVars, kitVars>>

\* the state of the other components, which an AdapterWallet never touches
beyondWallet == <<fetchVars, toolVars, codecVars, discoveryVars, kitVars>>

\* the state of the other components, which the adapter never touches
beyondTools == <<fetchVars, walletVars, codecVars, discoveryVars, kitVars>>

\* the state of the other components, which the header codec never touches
beyondCodec == <<fetchVars, walletVars, toolVars, discoveryVars, kitVars>>

\* the state of the other components, which discovery never touches
beyondDiscovery == <<fetchVars, walletVars, toolVars, codecVars, kitVars>>

\* the state of the other components, which DexfraAgentKit.use never touches
beyondKit == <<fetchVars, walletVars, toolVars, codecVars, discoveryVars>>

vars == <<fetchVars, walletVars, toolVars, codecVars, discoveryVars, kitVars>>

\* the url and init arguments of the invocation
RequestInit(c) ==
  [url |-> <<"https://api", c>>, method |-> "POST", body |-> <<"body", c>>,
   headers |-> {<<"content-type", "application/json">>}]

\* fetch(url, {...init, headers})
Request(c, h) ==
  [url |-> RequestInit(c).url, method |-> RequestInit(c).method,
   body |-> RequestInit(c).body, headers |-> h]

Pending == [kind |-> "pending", response |-> None, error |-> None]

Returned(r) == [kind |-> "returned", response |-> Some(r), error |-> None]

Thrown(e) == [kind |-> "thrown", response |-> None, error |-> Some(e)]

CbEntry(name, amount, txId, error, out) ==
  [name |-> name, amount |-> amount, txId |-> txId, error |-> error, out |-> out]

\* the config of an invocation that is not made
NoConfig ==
  [network |-> <<>>, maxAmount |-> None, onPaymentRequired |-> FALSE,
   onPaymentSuccess |-> FALSE, onPaymentError |-> FALSE]

\* the entry of dexfraFetch for each invocation in calls, with a config of
\* configs; the other invocations are not made ("idle")
Start(calls, configs) ==
  /\ pc = [c \in Calls |-> IF c \in calls THEN "fetch" ELSE "idle"]
  /\ config \in {cf \in [Calls -> configs \cup {NoConfig}] :
                   \A c \in Calls : IF c \in calls THEN cf[c] \in configs
                                                    ELSE cf[c] = NoConfig}
  /\ headers = [c \in Calls |-> [caller |-> RequestInit(c).headers, xPayment |-> None]]
  /\ netLog = [c \in Calls |-> <<>>]
  /\ response = [c \in Calls |-> None]
  /\ challenge = [c \in Calls |-> None]
  /\ selected = [c \in Calls |-> None]
  /\ maxAmountWei = [c \in Calls |-> None]
  /\ proof = [c \in Calls |-> None]
  /\ paidResponse = [c \in Calls |-> None]
  /\ cbLog = [c \in Calls |-> <<>>]
  /\ walletLog = [c \in Calls |-> <<>>]
  /\ outcome = [c \in Calls |-> Pending]

\* no wallet adapter is in use
NoWallet ==
  /\ adapter = [publicKey |-> FALSE, operations |-> {}]
  /\ wallet = "none"
  /\ adapterCalls = <<>>
  /\ walletOut = <<>>

\* the adapter is not in use
NoTools ==
  /\ actions = <<>>
  /\ tools = None
  /\ singleTool = None
  /\ toolStats = None
  /\ execution = None

\* no settlement header is under way
NoCodec ==
  /\ codecPc = "idle"
  /\ settled = None
  /\ offered = None
  /\ wire = None
  /\ parsed = None

\* no discovery is under way
NoDiscovery ==
  /\ discoveryPc = "idle"
  /\ params = None
  /\ filters = None
  /\ query = None
  /\ listing = None
  /\ discovery = None

\* no agent has been constructed
NoKit ==
  /\ plugins = <<>>
  /\ methods = <<>>
  /\ agentActions = <<>>
  /\ uses = <<>>

\* one invocation, any config
Init == Start({"c1"}, Configs) /\ NoWallet /\ NoTools /\ NoCodec /\ NoDiscovery /\ NoKit

(***************************************************************************)
(* The catch block of dexfraFetch (fetch.ts:206-221), entered with error e *)
(* after the callbacks in log; out is what onPaymentError does if invoked. *)
(***************************************************************************)
Wrapped(e) ==
  [DexfraError("PAYMENT_PROCESSING_FAILED", "dexfraFetch") EXCEPT !.wraps = e.origin]

Caught(c, e, out, log) ==
  IF IsDexfraError(e)
    THEN [log |-> log, outcome |-> Thrown(e)]
  ELSE IF config[c].onPaymentError
    THEN [log |-> Append(log, CbEntry("onPaymentError", None, None, Some(Wrapped(e)), out)),
          outcome |-> IF out = "returns" THEN Thrown(Wrapped(e))
                      ELSE Thrown(CallbackError("onPaymentError", out))]
  ELSE [log |-> log, outcome |-> Thrown(Wrapped(e))]

\* the invocation ends in the catch block
Fail(c, e, out, log) ==
  LET r == Caught(c, e, out, log)
  IN /\ pc' = [pc EXCEPT ![c] = "done"]
     /\ cbLog' = [cbLog EXCEPT ![c] = r.log]
     /\ outcome' = [outcome EXCEPT ![c] = r.outcome]

(***************************************************************************)
(* Pure functions of fetch.ts                                              *)
(***************************************************************************)
\* mutation: the networks are compared as written, without toLowerCase
selectPaymentRequirement_CaseSensitive(requirements, preferredNetwork) ==
  LET matching == {i \in 1..Len(requirements) :
                     requirements[i].network = preferredNetwork}
  IN IF matching # {}
       THEN requirements[CHOOSE i \in matching : \A j \in matching : i <= j]
       ELSE requirements[1]

\* selectPaymentRequirement (fetch.ts:73-88): Array.find, else requirements[0]
selectPaymentRequirement(requirements, preferredNetwork) ==
  LET matching == {i \in 1..Len(requirements) :
                     toLowerCase(requirements[i].network) = toLowerCase(preferredNetwork)}
  IN IF matching # {}
       THEN requirements[CHOOSE i \in matching : \A j \in matching : i <= j]
       ELSE requirements[1]

\* mutation: every error status is taken for a payment challenge
IsPaymentRequired_AnyError(status) == status >= 400

\* response.status === 402 (fetch.ts:124)
IsPaymentRequired(status) == status = 402

\* mutation: the version of the challenge is not validated
ChallengeInvalid_NoVersionCheck(body) ==
  \/ body.acceptsKind # "array"
  \/ Len(body.accepts) = 0

\* the validation of paymentRequiredData (fetch.ts:131-135)
ChallengeInvalid(body) ==
  \/ body.x402Version = None
  \/ body.acceptsKind # "array"
  \/ Len(body.accepts) = 0

\* mutation: the comparison is taken the wrong way round
ExceedsMax_Reversed(requiredAmount, maxWei) == BigGT(maxWei, requiredAmount)

\* requiredAmount > maxAmountWei (fetch.ts:158)
ExceedsMax(requiredAmount, maxWei) == BigGT(requiredAmount, maxWei)

\* mutation: the negation of paidResponse.ok is lost
PaidRejected_OkOnly(r) == (r.status >= 200 /\ r.status <= 299) /\ r.status = 402

\* !paidResponse.ok && paidResponse.status === 402 (fetch.ts:189)
PaidRejected(r) == ~(r.status >= 200 /\ r.status <= 299) /\ r.status = 402

\* createPaymentHeader (fetch.ts:31-68): base64 of the JSON text of paymentData;
\* the wallet and the connection are not used
createPaymentHeader(x402Version, requirement, now) ==
  [encoding |-> "base64",
   json |-> [version |-> x402Version,
             network |-> requirement.network,
             recipient |-> requirement.recipient,
             amount |-> requirement.maxAmountRequired,
             token |-> requirement.token,
             scheme |-> requirement.scheme,
             timestamp |-> now]]

\* parseSettlementResponse (fetch.ts:93-105): the parsed JSON value, or null
parseSettlementResponse(header) ==
  IF header.kind \in {"absent", "empty"} THEN "null"
  ELSE IF header.kind = "notBase64" THEN "null"
  ELSE IF header.kind = "notJson" THEN "null"
  ELSE header.value

\* if (settlement)
Truthy(value) == value \notin {"null", "zero"}

\* settlement.transactionId; undefined (None) on a value without that member
TransactionId(value) == IF value = "record" THEN Some("tx1") ELSE None

(***************************************************************************)
(* dexfraFetch (fetch.ts:110-226), one action per step                     *)
(***************************************************************************)
\* fetch.ts:115-125, 224-225: the initial request and the test of its status
InitialFetch(c) ==
  /\ pc[c] = "fetch"
  /\ netLog' = [netLog EXCEPT ![c] = Append(@, Request(c, headers[c]))]
  /\ \/ /\ pc' = [pc EXCEPT ![c] = "done"]
        /\ outcome' = [outcome EXCEPT ![c] = Thrown(Err("TypeError", "", "fetch"))]
        /\ UNCHANGED response
     \/ \E r \in ProbeResponses :
          /\ response' = [response EXCEPT ![c] = Some(r)]
          /\ IF IsPaymentRequired(r.status)
               THEN /\ pc' = [pc EXCEPT ![c] = "parse"]
                    /\ UNCHANGED outcome
               ELSE /\ pc' = [pc EXCEPT ![c] = "done"]
                    /\ outcome' = [outcome EXCEPT ![c] = Returned(r)]
  /\ UNCHANGED beyondFetch
  /\ UNCHANGED <<config, headers, challenge, selected, maxAmountWei, proof,
                 paidResponse, cbLog, walletLog>>

\* fetch.ts:127-145: response.json() and the validation of the challenge
ParseChallenge(c) ==
  /\ pc[c] = "parse"
  /\ LET body == response[c][1].body
     IN \E out \in CallbackOutcomes :
          IF body.json = "invalid"
            THEN /\ Fail(c, Err("SyntaxError", "", "response.json"), out, cbLog[c])
                 /\ UNCHANGED challenge
          ELSE IF body.json = "null"
            THEN /\ Fail(c, Err("TypeError", "", "paymentRequiredData"), out, cbLog[c])
                 /\ UNCHANGED challenge
          ELSE /\ challenge' = [challenge EXCEPT ![c] = Some(body)]
               /\ IF ChallengeInvalid(body)
                    THEN Fail(c, DexfraError("INVALID_402_RESPONSE", "dexfraFetch"),
                              out, cbLog[c])
                    ELSE /\ pc' = [pc EXCEPT ![c] = "select"]
                         /\ UNCHANGED <<cbLog, outcome>>
  /\ UNCHANGED beyondFetch
  /\ UNCHANGED <<config, headers, netLog, response, selected, maxAmountWei,
                 proof, paidResponse, walletLog>>

\* fetch.ts:148-151
Select(c) ==
  /\ pc[c] = "select"
  /\ selected' = [selected EXCEPT ![c] =
                    Some(selectPaymentRequirement(challenge[c][1].accepts,
                                                  config[c].network))]
  /\ pc' = [pc EXCEPT ![c] = "guard"]
  /\ UNCHANGED beyondFetch
  /\ UNCHANGED <<config, headers, netLog, response, challenge, maxAmountWei,
                 proof, paidResponse, cbLog, walletLog, outcome>>

\* fetch.ts:154-168: the check of the selected offer against config.maxAmount
Guard(c) ==
  /\ pc[c] = "guard"
  /\ IF config[c].maxAmount = None
       THEN /\ pc' = [pc EXCEPT ![c] = "notify"]
            /\ UNCHANGED <<maxAmountWei, cbLog, outcome>>
       ELSE LET required == selected[c][1].maxAmountRequired
                maxWei   == parseUSDCAmount(config[c].maxAmount[1])
            IN /\ maxAmountWei' = [maxAmountWei EXCEPT ![c] = Some(maxWei)]
               /\ \E out1, out2 \in CallbackOutcomes :
                    IF ~BigIntSyntaxOk(required)
                      THEN Fail(c, Err("SyntaxError", "", "BigInt"), out2, cbLog[c])
                    ELSE IF ExceedsMax(BigIntOfString(required), maxWei)
                      THEN LET error == MaxAmountExceededError(required, BigIntToString(maxWei))
                               log1  == IF config[c].onPaymentError
                                          THEN Append(cbLog[c],
                                                 CbEntry("onPaymentError", None, None,
                                                         Some(error), out1))
                                          ELSE cbLog[c]
                           IN IF config[c].onPaymentError /\ out1 # "returns"
                                THEN Fail(c, CallbackError("onPaymentError", out1), out2, log1)
                                ELSE Fail(c, error, out2, log1)
                    ELSE /\ pc' = [pc EXCEPT ![c] = "notify"]
                         /\ UNCHANGED <<cbLog, outcome>>
  /\ UNCHANGED beyondFetch
  /\ UNCHANGED <<config, headers, netLog, response, challenge, selected, proof,
                 paidResponse, walletLog>>

\* fetch.ts:171: config.onPaymentRequired?.(amount)
NotifyRequired(c) ==
  /\ pc[c] = "notify"
  /\ IF config[c].onPaymentRequired
       THEN \E out1, out2 \in CallbackOutcomes :
              LET log1 == Append(cbLog[c],
                            CbEntry("onPaymentRequired",
                                    selected[c][1].maxAmountRequired, None, None, out1))
              IN IF out1 # "returns"
                   THEN Fail(c, CallbackError("onPaymentRequired", out1), out2, log1)
                   ELSE /\ pc' = [pc EXCEPT ![c] = "build"]
                        /\ cbLog' = [cbLog EXCEPT ![c] = log1]
                        /\ UNCHANGED outcome
       ELSE /\ pc' = [pc EXCEPT ![c] = "build"]
            /\ UNCHANGED <<cbLog, outcome>>
  /\ UNCHANGED beyondFetch
  /\ UNCHANGED <<config, headers, netLog, response, challenge, selected,
                 maxAmountWei, proof, paidResponse, walletLog>>

\* mutation: createPaymentHeader has no try/catch, the error leaves it as it is
ProofFailure_Unwrapped(e) == e

\* fetch.ts:61-67: the catch of createPaymentHeader makes a DexfraError of
\* whatever its body threw
ProofFailure(e) ==
  [DexfraError("PAYMENT_CREATION_FAILED", "createPaymentHeader")
     EXCEPT !.wraps = e.origin]

\* fetch.ts:174-179: await createPaymentHeader(...).  Its body throws where
\* Buffer does not exist (a runtime other than Node): a ReferenceError.
BuildProof(c) ==
  /\ pc[c] = "build"
  /\ \/ /\ \E now \in Timestamps :
             proof' = [proof EXCEPT ![c] =
                         Some(createPaymentHeader(challenge[c][1].x402Version,
                                                  selected[c][1], now))]
        /\ pc' = [pc EXCEPT ![c] = "retry"]
        /\ UNCHANGED <<cbLog, outcome>>
     \/ /\ \E out \in CallbackOutcomes :
             Fail(c, ProofFailure(Err("ReferenceError", "", "Buffer")), out, cbLog[c])
        /\ UNCHANGED proof
  /\ UNCHANGED beyondFetch
  /\ UNCHANGED <<config, headers, netLog, response, challenge, selected,
                 maxAmountWei, paidResponse, walletLog>>

\* mutation: a rejected payment is paid again instead of failing
PaymentNotAccepted_PayAgain(c, out) ==
  /\ pc' = [pc EXCEPT ![c] = "retry"]
  /\ UNCHANGED <<cbLog, outcome>>

\* fetch.ts:190-194: throw new PaymentRequiredError(...), caught at 206
PaymentNotAccepted(c, out) ==
  Fail(c, PaymentRequiredError(selected[c][1].maxAmountRequired,
                               challenge[c][1].accepts),
       out, cbLog[c])

\* mutation: the retry is sent with a fresh Headers object holding the proof only
HeadersSet_Fresh(h, value) == [caller |-> {}, xPayment |-> value]

\* fetch.ts:182: headers.set("x-payment", paymentHeader)
HeadersSet(h, value) == [h EXCEPT !.xPayment = value]

\* mutation: paymentHeader is kept in one module-level variable, which
\* holds the proof of whichever invocation the runtime left there
paymentHeader_Shared(c) ==
  proof[CHOOSE d \in Calls : proof[d] # None]

\* fetch.ts:174: const paymentHeader, a local of the invocation
paymentHeader(c) == proof[c]

\* fetch.ts:182-195: the paid retry and the test of its status
PaidFetch(c) ==
  /\ pc[c] = "retry"
  /\ headers' = [headers EXCEPT ![c] = HeadersSet(@, paymentHeader(c))]
  /\ netLog' = [netLog EXCEPT ![c] = Append(@, Request(c, headers'[c]))]
  /\ \E out \in CallbackOutcomes :
       \/ /\ Fail(c, Err("TypeError", "", "fetch"), out, cbLog[c])
          /\ UNCHANGED paidResponse
       \/ \E r \in PaidResponses :
            /\ paidResponse' = [paidResponse EXCEPT ![c] = Some(r)]
            /\ IF PaidRejected(r)
                 THEN PaymentNotAccepted(c, out)
                 ELSE /\ pc' = [pc EXCEPT ![c] = "settle"]
                      /\ UNCHANGED <<cbLog, outcome>>
  /\ UNCHANGED beyondFetch
  /\ UNCHANGED <<config, response, challenge, selected, maxAmountWei, proof,
                 walletLog>>

\* fetch.ts:198-205: the settlement header, onPaymentSuccess, and the return
Settle(c) ==
  /\ pc[c] = "settle"
  /\ LET settlement == parseSettlementResponse(paidResponse[c][1].settlement)
     IN IF Truthy(settlement) /\ config[c].onPaymentSuccess
          THEN \E out1, out2 \in CallbackOutcomes :
                 LET log1 == Append(cbLog[c],
                               CbEntry("onPaymentSuccess", None,
                                       TransactionId(settlement), None, out1))
                 IN IF out1 # "returns"
                      THEN Fail(c, CallbackError("onPaymentSuccess", out1), out2, log1)
                      ELSE /\ pc' = [pc EXCEPT ![c] = "done"]
                           /\ cbLog' = [cbLog EXCEPT ![c] = log1]
                           /\ outcome' = [outcome EXCEPT ![c] = Returned(paidResponse[c][1])]
          ELSE /\ pc' = [pc EXCEPT ![c] = "done"]
               /\ outcome' = [outcome EXCEPT ![c] = Returned(paidResponse[c][1])]
               /\ UNCHANGED cbLog
  /\ UNCHANGED beyondFetch
  /\ UNCHANGED <<config, headers, netLog, response, challenge, selected,
                 maxAmountWei, proof, paidResponse, walletLog>>

Next ==
  \E c \in Calls :
    \/ InitialFetch(c)
    \/ ParseChallenge(c)
    \/ Select(c)
    \/ Guard(c)
    \/ NotifyRequired(c)
    \/ BuildProof(c)
    \/ PaidFetch(c)
    \/ Settle(c)

Spec == Init /\ [][Next]_vars

(***************************************************************************)
(* Two invocations of dexfraFetch under way at once.  Each await of        *)
(* dexfraFetch (the two fetch calls, response.json(), createPaymentHeader) *)
(* is a point where the other invocation may run, so the steps of the two  *)
(* interleave freely.  The servers answer within ConcProbeResponses and    *)
(* ConcPaidResponses, and no callbacks are supplied.                       *)
(***************************************************************************)
ConcCalls == {"c1", "c2"}

ConcConfigs ==
  {cf \in Configs : /\ cf.maxAmount = None
                    /\ ~cf.onPaymentRequired
                    /\ ~cf.onPaymentSuccess
                    /\ ~cf.onPaymentError}

ConcProbeResponses ==
  {Response("probe", 200, NoBody, NoHeader),
   Response("probe", 402,
            Body("object", Some(1), "array",
                 <<Offer(<<"A">>, <<"2", "4", "9">>),
                   Offer(<<"b">>, <<"1", "0", "0", "0", "0", "0", "0">>)>>),
            NoHeader),
   Response("probe", 402,
            Body("object", Some(1), "array",
                 <<Offer(<<"b">>, <<"2", "0", "0", "0", "0", "0", "0">>)>>),
            NoHeader)}

ConcPaidResponses ==
  {Response("paid", 200, NoBody, NoHeader),
   Response("paid", 402, NoBody, NoHeader)}

\* the answers received so far are among those above
ConcScope ==
  \A c \in Calls :
    /\ response[c] # None => response[c][1] \in ConcProbeResponses
    /\ paidResponse[c] # None => paidResponse[c][1] \in ConcPaidResponses

InitConc == Start(ConcCalls, ConcConfigs) /\ NoWallet /\ NoTools /\ NoCodec /\ NoDiscovery /\ NoKit

NextConc ==
  \E c \in Calls :
    \/ InitialFetch(c) /\ ConcScope'
    \/ ParseChallenge(c)
    \/ Select(c)
    \/ Guard(c)
    \/ NotifyRequired(c)
    \/ BuildProof(c)
    \/ PaidFetch(c) /\ ConcScope'
    \/ Settle(c)

SpecConc == InitConc /\ [][NextConc]_vars

(***************************************************************************)
(* AdapterWallet (wallet.ts:94-131): a DexfraWallet that hands every       *)
(* operation to a browser wallet adapter                                   *)
(***************************************************************************)
\* number of calls made on one AdapterWallet
MaxWalletCalls == 2

WalletOps == {"signTransaction", "signAllTransactions", "sendTransaction"}

\* an adapter: whether it has a publicKey, and the operations it has
Adapters == [publicKey : BOOLEAN, operations : SUBSET WalletOps]

\* what the adapter's own operation does when invoked
AdapterOutcomes == {"resolves", "rejects"}

WalletReturned(v) == [kind |-> "returned", value |-> Some(v), error |-> None]

WalletThrown(msg) == [kind |-> "thrown", value |-> None, error |-> Some(msg)]

\* wallet.ts:106, 115, 124: if (!this.adapter.<op>)
Supports(op) == op \in adapter.operations

\* mutation: an operation the adapter lacks does nothing and returns undefined
MissingOperation_Silent(op) ==
  [kind |-> "returned", value |-> None, error |-> None]

\* wallet.ts:107-109, 116-118, 125-127: throw new Error("Wallet adapter does not support <op>")
MissingOperation(op) == WalletThrown(<<"Wallet adapter does not support", op>>)

\* wallet.ts:95-101: the constructor
NewAdapterWallet ==
  /\ wallet = "none"
  /\ wallet' = IF adapter.publicKey THEN "constructed" ELSE "rejected"
  /\ UNCHANGED <<adapter, adapterCalls, walletOut>>
  /\ UNCHANGED beyondWallet

\* the wallet exists and may be asked for one more operation
Callable == wallet = "constructed" /\ Len(walletOut) < MaxWalletCalls

\* the throw of an operation the adapter lacks: the adapter is not touched
Refuse(op) ==
  /\ walletOut' = Append(walletOut, [op |-> op, result |-> MissingOperation(op)])
  /\ UNCHANGED adapterCalls

\* return await this.adapter.<op>(...): the adapter's answer is the wallet's
Invoke(op) ==
  /\ adapterCalls' = Append(adapterCalls, op)
  /\ \E out \in AdapterOutcomes :
       walletOut' =
         Append(walletOut,
                [op |-> op,
                 result |-> IF out = "resolves"
                              THEN WalletReturned(<<op, "by adapter">>)
                              ELSE WalletThrown(<<"adapter rejected", op>>)])

\* wallet.ts:105-112
signTransaction ==
  /\ Callable
  /\ IF ~Supports("signTransaction")
       THEN Refuse("signTransaction")
       ELSE Invoke("signTransaction")
  /\ UNCHANGED <<adapter, wallet>>
  /\ UNCHANGED beyondWallet

\* wallet.ts:114-121
signAllTransactions ==
  /\ Callable
  /\ IF ~Supports("signAllTransactions")
       THEN Refuse("signAllTransactions")
       ELSE Invoke("signAllTransactions")
  /\ UNCHANGED <<adapter, wallet>>
  /\ UNCHANGED beyondWallet

\* wallet.ts:123-130
sendTransaction ==
  /\ Callable
  /\ IF ~Supports("sendTransaction")
       THEN Refuse("sendTransaction")
       ELSE Invoke("sendTransaction")
  /\ UNCHANGED <<adapter, wallet>>
  /\ UNCHANGED beyondWallet

InitWallet ==
  /\ Start({}, Configs)
  /\ NoKit
  /\ NoDiscovery
  /\ NoTools
  /\ NoCodec
  /\ adapter \in Adapters
  /\ wallet = "none"
  /\ adapterCalls = <<>>
  /\ walletOut = <<>>

NextWallet ==
  \/ NewAdapterWallet
  \/ signTransaction
  \/ signAllTransactions
  \/ sendTransaction

SpecWallet == InitWallet /\ [][NextWallet]_vars

(***************************************************************************)
(* The Vercel AI adapter (adapter-vercel/tsup.config.ts): actions become   *)
(* tools whose execute runs the action's handler                           *)
(***************************************************************************)
\* tsup.config.ts:108, 115, 196: the largest number of tools
ToolLimit == 128

\* the longest agent.actions
MaxActions == 130

ActionCounts == {0, 1, 2, 3, ToolLimit - 1, ToolLimit, ToolLimit + 1, MaxActions}

\* An Action: its name, and whether tool() accepts it.  The i-th action of
\* a list of n is named i, or 1 when the last one repeats the first name.
ActionList(n, rejected, repeat) ==
  [i \in 1..n |-> [name |-> IF repeat /\ i = n THEN 1 ELSE i,
                   creatable |-> i \notin rejected]]

ActionLists ==
  {ActionList(n, rejected, repeat) :
     n \in ActionCounts, rejected \in {{}, {2}}, repeat \in BOOLEAN}

\* what becomes of a tool call: a value returned, or an error thrown
ToolValue(success, error, action, data) ==
  [success |-> success, error |-> error, action |-> action, data |-> data]

Resolved(v) == [kind |-> "returned", value |-> Some(v), error |-> None]

Rejected(e) == [kind |-> "thrown", value |-> None, error |-> Some(e)]

\* what action.handler(agent, params) does: it returns a value, throws an
\* Error with a message, or throws a value that is no Error
HandlerOutcomes ==
  {[kind |-> "returns", value |-> Some(v), message |-> None] :
     v \in {ToolValue(TRUE, None, None, Some("data")),
            ToolValue(FALSE, Some("declined"), None, None)}}
  \cup {[kind |-> "throwsError", value |-> None, message |-> Some("boom")],
        [kind |-> "throwsOther", value |-> None, message |-> None]}

\* mutation: the handler is awaited without try/catch
executeAction_Propagates(action, handler) ==
  IF handler.kind = "returns" THEN Resolved(handler.value[1])
  ELSE Rejected(handler.message)

\* executeAction (tsup.config.ts:52-67)
executeAction(action, handler) ==
  CASE handler.kind = "returns" -> Resolved(handler.value[1])
    [] handler.kind = "throwsError" ->
         Resolved(ToolValue(FALSE, handler.message, Some(action.name), None))
    [] OTHER ->
         Resolved(ToolValue(FALSE, Some("Unknown error occurred"),
                            Some(action.name), None))

\* Math.min
MathMin(a, b) == IF a < b THEN a ELSE b

\* mutation: every action is converted
limitedActions_All(actionsToConvert) == actionsToConvert

\* tsup.config.ts:115: actionsToConvert.slice(0, 128)
limitedActions(actionsToConvert) ==
  SubSeq(actionsToConvert, 1, MathMin(Len(actionsToConvert), ToolLimit))

\* tsup.config.ts:117-136: the loop over the list.  An action tool()
\* rejects is skipped; tools[action.name] = tool(...) overwrites an earlier
\* tool of the same name, so each key ends with the last action that was
\* converted under it.  A tool is written as the index of the action its
\* execute runs.
Convert(list) ==
  LET converted == {i \in 1..Len(list) : list[i].creatable}
      Under(key) == {i \in converted : list[i].name = key}
  IN [key \in {list[i].name : i \in converted} |->
        CHOOSE i \in Under(key) : \A j \in Under(key) : j <= i]

\* createVercelAITools (tsup.config.ts:99-139), called without `actions`
createVercelAITools ==
  /\ tools = None
  /\ tools' = Some(Convert(limitedActions(actions)))
  /\ UNCHANGED <<actions, singleTool, toolStats, execution>>
  /\ UNCHANGED beyondTools

\* Array.prototype.find on the action names: the index found, or 0
FindAction(actionName) ==
  IF \E i \in 1..Len(actions) : actions[i].name = actionName
    THEN CHOOSE i \in 1..Len(actions) :
           /\ actions[i].name = actionName
           /\ \A j \in 1..(i - 1) : actions[j].name # actionName
    ELSE 0

\* createVercelAITool (tsup.config.ts:153-182); 0 stands for undefined
createVercelAITool ==
  /\ singleTool = None
  /\ \E actionName \in {1, 2, MaxActions + 1} :
       LET found == FindAction(actionName)
       IN singleTool' = Some(IF found # 0 /\ actions[found].creatable
                               THEN found ELSE 0)
  /\ UNCHANGED <<actions, tools, toolStats, execution>>
  /\ UNCHANGED beyondTools

\* getToolStats (tsup.config.ts:190-203)
getToolStats ==
  /\ toolStats = None
  /\ LET totalActions == Len(actions)
     IN toolStats' = Some([totalActions |-> totalActions,
                           availableTools |-> MathMin(totalActions, ToolLimit),
                           truncated |-> totalActions > ToolLimit])
  /\ UNCHANGED <<actions, tools, singleTool, execution>>
  /\ UNCHANGED beyondTools

\* the execute of the tool made for the action at index i
Execute(i) ==
  \E handler \in HandlerOutcomes :
    execution' = Some([action |-> actions[i], handler |-> handler,
                       result |-> executeAction(actions[i], handler)])

\* tsup.config.ts:126-127: execute of a tool of createVercelAITools
ExecuteTool ==
  /\ execution = None
  /\ tools # None
  /\ \E key \in DOMAIN tools[1] : Execute(tools[1][key])
  /\ UNCHANGED <<actions, tools, singleTool, toolStats>>
  /\ UNCHANGED beyondTools

\* tsup.config.ts:172-173: execute of the tool of createVercelAITool
ExecuteSingleTool ==
  /\ execution = None
  /\ singleTool # None
  /\ singleTool[1] # 0
  /\ Execute(singleTool[1])
  /\ UNCHANGED <<actions, tools, singleTool, toolStats>>
  /\ UNCHANGED beyondTools

InitTools ==
  /\ Start({}, Configs)
  /\ NoKit
  /\ NoDiscovery
  /\ NoWallet
  /\ NoCodec
  /\ actions \in ActionLists
  /\ tools = None
  /\ singleTool = None
  /\ toolStats = None
  /\ execution = None

NextTools ==
  \/ createVercelAITools
  \/ createVercelAITool
  \/ getToolStats
  \/ ExecuteTool
  \/ ExecuteSingleTool

SpecTools == InitTools /\ [][NextTools]_vars

(***************************************************************************)
(* The x-payment-response header: base64 of the JSON text of a settlement  *)
(* record.  A text is the sequence of its code points, a byte string the   *)
(* sequence of its bytes, and a base64 text the sequence of the values     *)
(* 0..63 of its characters, with Pad for "=".                              *)
(***************************************************************************)
\* the longest string member of a settlement record
MaxText == 1

\* the characters of the string members: t, the double quote, e with acute
\* accent (U+00E9) and the euro sign (U+20AC)
Alphabet == {116, 34, 233, 8364}

Texts == SeqsUpTo(Alphabet, MaxText)

\* X402SettlementResponse (types/dexfra.ts:106-111)
Settlements ==
  [transactionId : Texts, network : Texts, amount : {<<53>>, <<49, 48>>},
   timestamp : {0, 12}]

\* the concatenation of the texts of a sequence, in order
RECURSIVE Flatten(_)
Flatten(texts) ==
  IF texts = <<>> THEN <<>> ELSE Head(texts) \o Flatten(Tail(texts))

\* the decimal digits of a natural number
RECURSIVE NumberText(_)
NumberText(n) ==
  IF n < 10 THEN <<48 + n>> ELSE NumberText(n \div 10) \o <<48 + (n % 10)>>

\* JSON.stringify of a string without control characters: the double
\* quote (34) and the backslash (92) are escaped with a backslash
JSONQuote(text) ==
  <<34>> \o Flatten([i \in 1..Len(text) |->
                       IF text[i] \in {34, 92} THEN <<92, text[i]>>
                       ELSE <<text[i]>>]) \o <<34>>

\* the member names, as texts
NameText ==
  [transactionId |-> <<116, 114, 97, 110, 115, 97, 99, 116, 105, 111, 110, 73, 100>>,
   network |-> <<110, 101, 116, 119, 111, 114, 107>>,
   amount |-> <<97, 109, 111, 117, 110, 116>>,
   timestamp |-> <<116, 105, 109, 101, 115, 116, 97, 109, 112>>]

\* JSON.stringify of a settlement record:
\* {"transactionId":"..","network":"..","amount":"..","timestamp":N}
JSONStringify(record) ==
  <<123>> \o JSONQuote(NameText.transactionId) \o <<58>>
          \o JSONQuote(record.transactionId) \o <<44>>
          \o JSONQuote(NameText.network) \o <<58>>
          \o JSONQuote(record.network) \o <<44>>
          \o JSONQuote(NameText.amount) \o <<58>>
          \o JSONQuote(record.amount) \o <<44>>
          \o JSONQuote(NameText.timestamp) \o <<58>>
          \o NumberText(record.timestamp) \o <<125>>

\* mutation: Buffer.from(text, "latin1"), which keeps the low byte only
Utf8_Latin1(cp) == <<cp % 256>>

\* the UTF-8 bytes of a code point of the basic plane
Utf8(cp) ==
  IF cp < 128 THEN <<cp>>
  ELSE IF cp < 2048 THEN <<192 + (cp \div 64), 128 + (cp % 64)>>
  ELSE <<224 + (cp \div 4096), 128 + ((cp \div 64) % 64), 128 + (cp % 64)>>

\* Buffer.from(text): the UTF-8 bytes of a text
Utf8Encode(text) == Flatten([i \in 1..Len(text) |-> Utf8(text[i])])

Pad == 64

\* buffer.toString("base64")
RECURSIVE Base64Encode(_)
Base64Encode(bytes) ==
  IF Len(bytes) = 0 THEN <<>>
  ELSE IF Len(bytes) = 1
    THEN <<bytes[1] \div 4, (bytes[1] % 4) * 16, Pad, Pad>>
  ELSE IF Len(bytes) = 2
    THEN <<bytes[1] \div 4, (bytes[1] % 4) * 16 + (bytes[2] \div 16),
           (bytes[2] % 16) * 4, Pad>>
  ELSE <<bytes[1] \div 4, (bytes[1] % 4) * 16 + (bytes[2] \div 16),
         (bytes[2] % 16) * 4 + (bytes[3] \div 64), bytes[3] % 64>>
       \o Base64Encode(SubSeq(bytes, 4, Len(bytes)))

\* the header value a server makes of a settlement record
EncodeSettlement(record) == Base64Encode(Utf8Encode(JSONStringify(record)))

\* what a step of parsing gives: whether it succeeded, the value read, and
\* the position after it
Read(ok, kind, str, num, next) ==
  [ok |-> ok, kind |-> kind, str |-> str, num |-> num, next |-> next]

NoRead == Read(FALSE, "none", <<>>, 0, 0)

\* atob (fetch.ts:99): padding is dropped, a text of length 4k+1 or with a
\* character outside the alphabet is rejected (None), and every byte
\* decoded becomes the character with that code point
RECURSIVE Base64Bytes(_)
Base64Bytes(data) ==
  IF Len(data) = 0 THEN <<>>
  ELSE IF Len(data) = 2
    THEN <<data[1] * 4 + (data[2] \div 16)>>
  ELSE IF Len(data) = 3
    THEN <<data[1] * 4 + (data[2] \div 16),
           (data[2] % 16) * 16 + (data[3] \div 4)>>
  ELSE <<data[1] * 4 + (data[2] \div 16),
         (data[2] % 16) * 16 + (data[3] \div 4),
         (data[3] % 4) * 64 + data[4]>>
       \o Base64Bytes(SubSeq(data, 5, Len(data)))

atob(data) ==
  LET n == Len(data)
      padded == IF n % 4 = 0 /\ n >= 2 /\ data[n] = Pad
                  THEN IF data[n - 1] = Pad THEN 2 ELSE 1
                  ELSE 0
      body == SubSeq(data, 1, n - padded)
  IN IF Len(body) % 4 = 1 \/ \E i \in 1..Len(body) : body[i] \notin 0..63
       THEN None
       ELSE Some(Base64Bytes(body))

\* JSON.parse of a string: from the character after the opening quote to
\* the closing quote; \" \\ and \/ are the escapes read
RECURSIVE ReadString(_, _, _)
ReadString(text, i, acc) ==
  IF i > Len(text) \/ text[i] < 32 THEN NoRead
  ELSE IF text[i] = 34 THEN Read(TRUE, "string", acc, 0, i + 1)
  ELSE IF text[i] = 92
    THEN IF i + 1 <= Len(text) /\ text[i + 1] \in {34, 92, 47}
           THEN ReadString(text, i + 2, Append(acc, text[i + 1]))
           ELSE NoRead
  ELSE ReadString(text, i + 1, Append(acc, text[i]))

\* JSON.parse of a natural number without leading zero
RECURSIVE ReadDigits(_, _, _)
ReadDigits(text, i, acc) ==
  IF i <= Len(text) /\ text[i] \in 48..57
    THEN ReadDigits(text, i + 1, acc * 10 + (text[i] - 48))
    ELSE Read(TRUE, "number", <<>>, acc, i)

ReadValue(text, i) ==
  IF i > Len(text) THEN NoRead
  ELSE IF text[i] = 34 THEN ReadString(text, i + 1, <<>>)
  ELSE IF text[i] \in 49..57 THEN ReadDigits(text, i, 0)
  ELSE IF text[i] = 48 /\ ~(i + 1 <= Len(text) /\ text[i + 1] \in 48..57)
    THEN Read(TRUE, "number", <<>>, 0, i + 1)
  ELSE NoRead

\* the members of an object, from the first name to the closing brace,
\* which must end the text; None when the text is not JSON
RECURSIVE ReadMembers(_, _, _)
ReadMembers(text, i, members) ==
  IF i > Len(text) \/ text[i] # 34 THEN None
  ELSE LET name == ReadString(text, i + 1, <<>>)
       IN IF ~name.ok \/ name.next > Len(text) \/ text[name.next] # 58 THEN None
          ELSE LET value == ReadValue(text, name.next + 1)
                   all == Append(members, [name |-> name.str, kind |-> value.kind,
                                           str |-> value.str, num |-> value.num])
               IN IF ~value.ok \/ value.next > Len(text) THEN None
                  ELSE IF text[value.next] = 44
                    THEN ReadMembers(text, value.next + 1, all)
                  ELSE IF text[value.next] = 125 /\ value.next = Len(text)
                    THEN Some(all)
                  ELSE None

\* JSON.parse (fetch.ts:100) of the text of an object whose members are
\* strings and natural numbers, written without white space
JSONParse(text) ==
  IF Len(text) < 2 \/ text[1] # 123 THEN None
  ELSE IF text = <<123, 125>> THEN Some(<<>>)
  ELSE ReadMembers(text, 2, <<>>)

\* object[name]: the last member of that name, or undefined
Member(members, name) ==
  LET at == {i \in 1..Len(members) : members[i].name = name}
  IN IF at = {} THEN [kind |-> "undefined", str |-> <<>>, num |-> 0]
     ELSE LET m == members[CHOOSE i \in at : \A j \in at : j <= i]
          IN [kind |-> m.kind, str |-> m.str, num |-> m.num]

\* the parsed object, read as an X402SettlementResponse (the cast at fetch.ts:100)
AsSettlement(members) ==
  [transactionId |-> Member(members, NameText.transactionId).str,
   network |-> Member(members, NameText.network).str,
   amount |-> Member(members, NameText.amount).str,
   timestamp |-> Member(members, NameText.timestamp).num]

\* parseSettlementResponse (fetch.ts:93-105) on the characters of a header
\* that is present: None stands for null
parseSettlementHeader(header) ==
  IF header = <<>> THEN None
  ELSE LET decoded == atob(header)
       IN IF decoded = None THEN None
          ELSE LET object == JSONParse(decoded[1])
               IN IF object = None THEN None
                  ELSE Some(AsSettlement(object[1]))

\* the server settles and sends the record in the header
SendSettlement ==
  /\ codecPc = "encode"
  /\ wire' = Some(EncodeSettlement(settled[1]))
  /\ codecPc' = "decode"
  /\ UNCHANGED <<settled, offered, parsed>>
  /\ UNCHANGED beyondCodec

\* fetch.ts:198-199: the header is read and parsed
ReadSettlement ==
  /\ codecPc = "decode"
  /\ parsed' = parseSettlementHeader(wire[1])
  /\ codecPc' = "done"
  /\ UNCHANGED <<settled, offered, wire>>
  /\ UNCHANGED beyondCodec

\* the member names of paymentData, as texts
PaymentNameText ==
  [version |-> <<118, 101, 114, 115, 105, 111, 110>>,
   network |-> <<110, 101, 116, 119, 111, 114, 107>>,
   recipient |-> <<114, 101, 99, 105, 112, 105, 101, 110, 116>>,
   amount |-> <<97, 109, 111, 117, 110, 116>>,
   token |-> <<116, 111, 107, 101, 110>>,
   scheme |-> <<115, 99, 104, 101, 109, 101>>,
   timestamp |-> <<116, 105, 109, 101, 115, 116, 97, 109, 112>>]

\* X402PaymentRequirement (types/dexfra.ts:85-92) with its strings as
\* texts: scheme "exact", recipient "m" or e with acute accent, amount "5",
\* token absent or "U"
TextOffers ==
  [scheme : {<<101, 120, 97, 99, 116>>}, network : Texts,
   recipient : {<<109>>, <<233>>}, maxAmountRequired : {<<53>>},
   token : {None, Some(<<85>>)}]

\* the arguments of createPaymentHeader, and what Date.now() returns
ProofInputs ==
  [x402Version : {1, 2}, requirement : TextOffers, now : Timestamps]

\* fetch.ts:40-48: const paymentData
paymentData(x402Version, requirement, now) ==
  [version |-> x402Version,
   network |-> requirement.network,
   recipient |-> requirement.recipient,
   amount |-> requirement.maxAmountRequired,
   token |-> requirement.token,
   scheme |-> requirement.scheme,
   timestamp |-> now]

\* JSON.stringify(paymentData): a member that is undefined is left out
JSONStringifyPayment(data) ==
  <<123>> \o JSONQuote(PaymentNameText.version) \o <<58>>
          \o NumberText(data.version) \o <<44>>
          \o JSONQuote(PaymentNameText.network) \o <<58>>
          \o JSONQuote(data.network) \o <<44>>
          \o JSONQuote(PaymentNameText.recipient) \o <<58>>
          \o JSONQuote(data.recipient) \o <<44>>
          \o JSONQuote(PaymentNameText.amount) \o <<58>>
          \o JSONQuote(data.amount) \o <<44>>
          \o (IF data.token = None THEN <<>>
              ELSE JSONQuote(PaymentNameText.token) \o <<58>>
                   \o JSONQuote(data.token[1]) \o <<44>>)
          \o JSONQuote(PaymentNameText.scheme) \o <<58>>
          \o JSONQuote(data.scheme) \o <<44>>
          \o JSONQuote(PaymentNameText.timestamp) \o <<58>>
          \o NumberText(data.timestamp) \o <<125>>

\* createPaymentHeader (fetch.ts:31-68) down to the characters of the header
createPaymentHeaderText(x402Version, requirement, now) ==
  Base64Encode(Utf8Encode(JSONStringifyPayment(
                            paymentData(x402Version, requirement, now))))

\* the text of UTF-8 bytes of the basic plane; None when they are no UTF-8.
\* A character starts at every byte outside 128..191, and the first byte
\* tells how many bytes in 128..191 follow it.
Utf8Decode(bytes) ==
  LET n == Len(bytes)
      Continues(j) == j <= n /\ bytes[j] \in 128..191
      starts == {i \in 1..n : ~Continues(i)}
      Width(i) == IF bytes[i] < 128 THEN 1
                  ELSE IF bytes[i] \in 194..223 THEN 2
                  ELSE IF bytes[i] \in 224..239 THEN 3
                  ELSE 0
      WellFormed(i) ==
        /\ Width(i) > 0
        /\ \A j \in (i + 1)..(i + Width(i) - 1) : Continues(j)
        /\ ~Continues(i + Width(i))
      CodePoint(i) ==
        IF Width(i) = 1 THEN bytes[i]
        ELSE IF Width(i) = 2
          THEN (bytes[i] - 192) * 64 + (bytes[i + 1] - 128)
        ELSE (bytes[i] - 224) * 4096 + (bytes[i + 1] - 128) * 64
               + (bytes[i + 2] - 128)
      NthStart(k) == CHOOSE i \in starts : Cardinality({j \in starts : j <= i}) = k
  IN IF (n > 0 /\ Continues(1)) \/ \E i \in starts : ~WellFormed(i)
       THEN None
       ELSE Some([k \in 1..Cardinality(starts) |-> CodePoint(NthStart(k))])

\* what the receiver of an x-payment header reads: base64, then UTF-8, then
\* JSON; None when one of the three fails
DecodePayment(header) ==
  LET bytes == atob(header)
  IN IF bytes = None THEN None
     ELSE LET text == Utf8Decode(bytes[1])
          IN IF text = None THEN None
             ELSE LET object == JSONParse(text[1])
                  IN IF object = None THEN None
                     ELSE LET Of(name) == Member(object[1], name)
                          IN Some([version |-> Of(PaymentNameText.version).num,
                                   network |-> Of(PaymentNameText.network).str,
                                   recipient |-> Of(PaymentNameText.recipient).str,
                                   amount |-> Of(PaymentNameText.amount).str,
                                   token |-> IF Of(PaymentNameText.token).kind = "string"
                                               THEN Some(Of(PaymentNameText.token).str)
                                               ELSE None,
                                   scheme |-> Of(PaymentNameText.scheme).str,
                                   timestamp |-> Of(PaymentNameText.timestamp).num])

\* fetch.ts:174-182: the proof is built and put in the x-payment header
BuildHeader ==
  /\ codecPc = "build"
  /\ wire' = Some(createPaymentHeaderText(offered[1].x402Version,
                                          offered[1].requirement, offered[1].now))
  /\ codecPc' = "check"
  /\ UNCHANGED <<settled, offered, parsed>>
  /\ UNCHANGED beyondCodec

\* the server reads the x-payment header
ReadPayment ==
  /\ codecPc = "check"
  /\ parsed' = DecodePayment(wire[1])
  /\ codecPc' = "done"
  /\ UNCHANGED <<settled, offered, wire>>
  /\ UNCHANGED beyondCodec

InitCodec ==
  /\ Start({}, Configs)
  /\ NoKit
  /\ NoDiscovery
  /\ NoWallet
  /\ NoTools
  /\ \/ /\ codecPc = "encode"
        /\ settled \in {Some(r) : r \in Settlements}
        /\ offered = None
     \/ /\ codecPc = "build"
        /\ settled = None
        /\ offered \in {Some(i) : i \in ProofInputs}
  /\ wire = None
  /\ parsed = None

NextCodec == SendSettlement \/ ReadSettlement \/ BuildHeader \/ ReadPayment

SpecCodec == InitCodec /\ [][NextCodec]_vars

(***************************************************************************)
(* Discovery: the handler of discover_dexfra_apis                          *)
(* (actions/discoverAPIs.ts:176-192), DexfraAgentKit.discoverAPIs and the  *)
(* tool discoverAPIs (tools/discovery.ts:17-60).  Texts are sequences of   *)
(* code points; a price is a number of thousandths of a USDC.              *)
(***************************************************************************)
MaxListing == 2

\* category names: "T" and "M"
Categories == {<<84>>, <<77>>}

\* prices of 0.005, 0.01 and 0.02 USDC
Prices == {5, 10, 20}

\* DexfraAPI, as far as the filters look at it
APIs == [category : Categories, price : Prices]

Listings == SeqsUpTo(APIs, MaxListing)

\* the params of the action: category absent, "" or "T"; minPrice absent or
\* 0.01; maxPrice absent, 0 or 0.01; limit absent or 1.  categoryId, search
\* and tags are absent
DiscoveryParams ==
  [category : {None, Some(<<>>), Some(<<84>>)},
   minPrice : {None, Some(10)},
   maxPrice : {None, Some(0), Some(10)},
   limit : {None, Some(1)}]

\* what the marketplace may answer: no answer (the request is rejected), a
\* status that is not ok, or a 200 with a body that is not JSON, is null,
\* has no apis or has any list of apis
Answer(kind, ok, json, apis) ==
  [kind |-> kind, ok |-> ok, json |-> json, apis |-> apis]

Answers ==
  {Answer("rejected", FALSE, "none", None),
   Answer("response", FALSE, "object", None),
   Answer("response", TRUE, "invalid", None),
   Answer("response", TRUE, "null", None),
   Answer("response", TRUE, "object", None)}
    \cup {Answer("response", TRUE, "object", Some(l)) : l \in Listings}

\* String(n / 1000) for a price of n thousandths
PriceText(n) ==
  LET frac == n % 1000
      d1 == 48 + (frac \div 100)
      d2 == 48 + ((frac \div 10) % 10)
      d3 == 48 + (frac % 10)
  IN NumberText(n \div 1000)
       \o (IF frac = 0 THEN <<>>
           ELSE IF d3 # 48 THEN <<46, d1, d2, d3>>
           ELSE IF d2 # 48 THEN <<46, d1, d2>>
           ELSE <<46, d1>>)

\* mutation: a price is sent only when it is truthy, as limit and offset are
PriceGiven_Truthy(price) == price # None /\ price[1] # 0

\* discovery.ts:29, 31: filters?.minPrice !== undefined
PriceGiven(price) == price # None

\* one entry of URLSearchParams
Param(name, value) == [name |-> name, value |-> value]

\* discovery.ts:23-34: the query parameters for the filters, in the order set
SearchParams(f) ==
  (IF f.category # None /\ f.category[1] # <<>>
     THEN <<Param("category", f.category[1])>> ELSE <<>>)
  \o (IF PriceGiven(f.minPrice)
        THEN <<Param("minPrice", PriceText(f.minPrice[1]))>> ELSE <<>>)
  \o (IF PriceGiven(f.maxPrice)
        THEN <<Param("maxPrice", PriceText(f.maxPrice[1]))>> ELSE <<>>)
  \o (IF f.limit # None /\ f.limit[1] # 0
        THEN <<Param("limit", NumberText(f.limit[1]))>> ELSE <<>>)

\* what the handler gives back: its return value, or the error thrown
Found(apis) ==
  [kind |-> "returned", success |-> TRUE, apis |-> apis, total |-> Len(apis),
   code |-> ""]

SearchError(code) ==
  [kind |-> "thrown", success |-> FALSE, apis |-> <<>>, total |-> 0, code |-> code]

\* discovery.ts:37-58 and discoverAPIs.ts:187-191: the result for an answer
SearchResult(answer) ==
  IF answer.kind = "rejected" THEN SearchError("API_SEARCH_ERROR")
  ELSE IF ~answer.ok THEN SearchError("API_SEARCH_FAILED")
  ELSE IF answer.json # "object" THEN SearchError("API_SEARCH_ERROR")
  ELSE IF answer.apis = None THEN Found(<<>>)
  ELSE Found(answer.apis[1])

\* discoverAPIs.ts:176-185: the handler passes the params on as filters
Handle ==
  /\ discoveryPc = "handler"
  /\ filters' = Some([category |-> params[1].category,
                      minPrice |-> params[1].minPrice,
                      maxPrice |-> params[1].maxPrice,
                      limit |-> params[1].limit])
  /\ discoveryPc' = "search"
  /\ UNCHANGED <<params, query, listing, discovery>>
  /\ UNCHANGED beyondDiscovery

\* discovery.ts:22-37: the query is built and the request sent
Search ==
  /\ discoveryPc = "search"
  /\ query' = Some(SearchParams(filters[1]))
  /\ discoveryPc' = "await"
  /\ UNCHANGED <<params, filters, listing, discovery>>
  /\ UNCHANGED beyondDiscovery

\* discovery.ts:37-58, discoverAPIs.ts:187-191: the answer and the result
Receive ==
  /\ discoveryPc = "await"
  /\ \E answer \in Answers :
       /\ listing' = Some(answer)
       /\ discovery' = Some(SearchResult(answer))
  /\ discoveryPc' = "done"
  /\ UNCHANGED <<params, filters, query>>
  /\ UNCHANGED beyondDiscovery

InitDiscovery ==
  /\ Start({}, Configs)
  /\ NoKit
  /\ NoWallet
  /\ NoTools
  /\ NoCodec
  /\ discoveryPc = "handler"
  /\ params \in {Some(p) : p \in DiscoveryParams}
  /\ filters = None
  /\ query = None
  /\ listing = None
  /\ discovery = None

NextDiscovery == Handle \/ Search \/ Receive

SpecDiscovery == InitDiscovery /\ [][NextDiscovery]_vars

(***************************************************************************)
(* DexfraAgentKit: the constructor (client.ts:63-77), use (152-190),       *)
(* hasPlugin and getPluginNames (195-211)                                  *)
(***************************************************************************)
MaxUses == 3

\* client.ts:76, with the names of actions/callAPI.ts:14,
\* actions/discoverAPIs.ts:14 and actions/getBalance.ts:14
BuiltInActions == <<"call_dexfra_api", "discover_dexfra_apis", "get_balance">>

\* Plugin (types/plugin.ts:41-53): methods are the keys of plugin.methods in
\* the order of Object.entries, actions the names of plugin.actions.  p1 and
\* p4 have the same name; p2 has a method of p1 after one of its own; p3 has
\* an action named as a built-in after one of its own; p5 has two actions
\* of one name
PluginOf(id, name, methodNames, actionNames) ==
  [id |-> id, name |-> name, methods |-> methodNames, actions |-> actionNames]

Plugins ==
  {PluginOf("p1", "x", <<"a">>, <<"act1">>),
   PluginOf("p2", "y", <<"b", "a">>, <<"act2">>),
   PluginOf("p3", "z", <<"c">>, <<"act3", "get_balance">>),
   PluginOf("p4", "x", <<"d">>, <<"act4">>),
   PluginOf("p5", "w", <<>>, <<"dup", "dup">>)}

MethodNames == {"a", "b", "c", "d"}

\* what plugin.initialize may do
InitializeOutcomes == {"returns", "throws"}

\* an entry of this.actions: the action's name and where it comes from
ActionOf(name, owner) == [name |-> name, owner |-> owner]

\* mutation: the Map is never found to hold the name
AlreadyRegistered_Never(map, name) == FALSE

\* client.ts:156: this.plugins.has(plugin.name)
AlreadyRegistered(map, name) == \E i \in 1..Len(map) : map[i].name = name

\* mutation: the key is never found to be taken
MethodTaken_Never(table, methodName) == FALSE

\* client.ts:166: this.methods[methodName] is truthy
MethodTaken(table, methodName) == table[methodName] # None

\* client.ts:178: this.actions.some((a) => a.name === action.name)
ActionTaken(list, name) == \E i \in 1..Len(list) : list[i].name = name

\* client.ts:165-173: the loop over the methods of the plugin from the i-th
\* on; it stops at the first key that is taken
RECURSIVE RegisterMethods(_, _, _)
RegisterMethods(table, plugin, i) ==
  IF i > Len(plugin.methods) THEN [methods |-> table, conflict |-> FALSE]
  ELSE IF MethodTaken(table, plugin.methods[i])
    THEN [methods |-> table, conflict |-> TRUE]
  ELSE RegisterMethods([table EXCEPT ![plugin.methods[i]] = Some(plugin.id)],
                       plugin, i + 1)

\* client.ts:176-185: the loop over the actions of the plugin from the i-th
\* on; it stops at the first name that is taken
RECURSIVE RegisterActions(_, _, _)
RegisterActions(list, plugin, i) ==
  IF i > Len(plugin.actions) THEN [actions |-> list, conflict |-> FALSE]
  ELSE IF ActionTaken(list, plugin.actions[i])
    THEN [actions |-> list, conflict |-> TRUE]
  ELSE RegisterActions(Append(list, ActionOf(plugin.actions[i], plugin.id)),
                       plugin, i + 1)

\* a call of use: the plugin, whether plugin.initialize was called, and
\* whether the call returned or threw, and from where
UseOf(plugin, initialized, result, cause) ==
  [plugin |-> plugin.id, name |-> plugin.name, initialized |-> initialized,
   result |-> result, cause |-> cause]

\* client.ts:195-197
getPlugin(name) ==
  IF \E i \in 1..Len(plugins) : plugins[i].name = name
    THEN Some(plugins[CHOOSE i \in 1..Len(plugins) : plugins[i].name = name].plugin)
    ELSE None

\* client.ts:202-204
hasPlugin(name) == name \in {plugins[i].name : i \in 1..Len(plugins)}

\* client.ts:209-211
getPluginNames == [i \in 1..Len(plugins) |-> plugins[i].name]

\* client.ts:152-190: use(plugin), where plugin.initialize does `init`
use(plugin, init) ==
  /\ Len(uses) < MaxUses
  /\ IF AlreadyRegistered(plugins, plugin.name)
       THEN /\ uses' = Append(uses, UseOf(plugin, FALSE, "returned", ""))
            /\ UNCHANGED <<plugins, methods, agentActions>>
     ELSE IF init = "throws"
       THEN /\ uses' = Append(uses, UseOf(plugin, TRUE, "thrown", "initialize"))
            /\ UNCHANGED <<plugins, methods, agentActions>>
     ELSE LET m == RegisterMethods(methods, plugin, 1)
              a == RegisterActions(agentActions, plugin, 1)
          IN IF m.conflict
               THEN /\ methods' = m.methods
                    /\ uses' = Append(uses, UseOf(plugin, TRUE, "thrown", "method"))
                    /\ UNCHANGED <<plugins, agentActions>>
             ELSE IF a.conflict
               THEN /\ methods' = m.methods
                    /\ agentActions' = a.actions
                    /\ uses' = Append(uses, UseOf(plugin, TRUE, "thrown", "action"))
                    /\ UNCHANGED plugins
             ELSE /\ methods' = m.methods
                  /\ agentActions' = a.actions
                  /\ plugins' = Append(plugins, [name |-> plugin.name,
                                                 plugin |-> plugin.id])
                  /\ uses' = Append(uses, UseOf(plugin, TRUE, "returned", ""))
  /\ UNCHANGED beyondKit

\* client.ts:55-77: the agent as constructed
InitKit ==
  /\ Start({}, Configs)
  /\ NoWallet
  /\ NoTools
  /\ NoCodec
  /\ NoDiscovery
  /\ plugins = <<>>
  /\ methods = [n \in MethodNames |-> None]
  /\ agentActions = [i \in 1..Len(BuiltInActions) |-> ActionOf(BuiltInActions[i], "core")]
  /\ uses = <<>>

NextKit == \E plugin \in Plugins, init \in InitializeOutcomes : use(plugin, init)

SpecKit == InitKit /\ [][NextKit]_vars

(***************************************************************************)
(* Vocabulary of the properties                                            *)
(***************************************************************************)
NetCalls(c) == Len(netLog[c])

Invocations(c, name) == {i \in 1..Len(cbLog[c]) : cbLog[c][i].name = name}

Invoked(c, name) == Cardinality(Invocations(c, name))

\* the callback `name` was invoked and threw
Threw(c, name) == \E i \in Invocations(c, name) : cbLog[c][i].out # "returns"

\* maxAmountRequired of the selected offer, in base units
SelectedAmount(c) == BigToNat(BigIntOfString(selected[c][1].maxAmountRequired))

\* config.maxAmount is the number written n / 10^6, i.e. n base units
CeilingIs(c, n) == config[c].maxAmount = Some(NumberOf(n, Pow10(USDC_DECIMALS)))

\* a proof exists: as the value of paymentHeader or as the x-payment header
ProofExists(c) == proof[c] # None \/ headers[c].xPayment # None

(***************************************************************************)
(* C1: with config.maxAmount set, a proof exists only for a selected offer *)
(* whose maxAmountRequired does not exceed the ceiling in base units, and  *)
(* the step that builds the proof is taken only after the guard has        *)
(* computed the ceiling and found the offer within it.                     *)
(***************************************************************************)
C1_NoProofAboveCeiling ==
  \A c \in Calls : \A n \in CeilingMicros :
    ((ProofExists(c) \/ walletLog[c] # <<>>) /\ CeilingIs(c, n)) =>
      /\ maxAmountWei[c] # None
      /\ selected[c] # None
      /\ SelectedAmount(c) <= n

C1_GuardBeforeProof ==
  \A c \in Calls :
    ((proof'[c] # proof[c] \/ walletLog'[c] # walletLog[c])
       /\ config[c].maxAmount # None) =>
      /\ maxAmountWei[c] # None
      /\ ~BigGT(BigIntOfString(selected[c][1].maxAmountRequired), maxAmountWei[c][1])

C1_CeilingBeforeProof ==
  [] C1_NoProofAboveCeiling /\ [][C1_GuardBeforeProof]_vars

\* a proof was built under a ceiling, for an offer of exactly the ceiling
C1_Witness ==
  \E c \in Calls :
    /\ proof[c] # None
    /\ CeilingIs(c, 1000000)
    /\ SelectedAmount(c) = 1000000

(***************************************************************************)
(* C2: an initial response whose status is not 402 is returned as it is,   *)
(* after exactly one network call and without any callback.                *)
(***************************************************************************)
C2_Non402ReturnedVerbatim ==
  \A c \in Calls :
    (response[c] # None /\ response[c][1].status # 402) =>
      /\ pc[c] = "done"
      /\ outcome[c] = Returned(response[c][1])
      /\ NetCalls(c) = 1
      /\ cbLog[c] = <<>>

C2_Witness ==
  \E c \in Calls :
    /\ response[c] # None
    /\ response[c][1].status = 500
    /\ outcome[c].kind = "returned"
    /\ config[c].onPaymentRequired /\ config[c].onPaymentSuccess
    /\ config[c].onPaymentError

(***************************************************************************)
(* C3: one invocation issues at most two network calls.                    *)
(***************************************************************************)
C3_AtMostTwoNetworkCalls == \A c \in Calls : NetCalls(c) <= 2

\* an invocation that ended after its paid retry was rejected
C3_Witness ==
  \E c \in Calls :
    /\ pc[c] = "done"
    /\ NetCalls(c) = 2
    /\ paidResponse[c] # None
    /\ paidResponse[c][1].status = 402

(***************************************************************************)
(* C4: a paid retry answered with 402 makes the invocation fail with the   *)
(* PaymentRequiredError that carries the selected amount and the offered   *)
(* requirements, after exactly two network calls and without               *)
(* onPaymentSuccess.                                                       *)
(***************************************************************************)
C4_SecondChallengeRejected ==
  \A c \in Calls :
    (paidResponse[c] # None /\ paidResponse[c][1].status = 402) =>
      /\ pc[c] = "done"
      /\ outcome[c] = Thrown(PaymentRequiredError(selected[c][1].maxAmountRequired,
                                                  response[c][1].body.accepts))
      /\ NetCalls(c) = 2
      /\ Invoked(c, "onPaymentSuccess") = 0

C4_Witness ==
  \E c \in Calls :
    /\ paidResponse[c] # None
    /\ paidResponse[c][1].status = 402
    /\ outcome[c].kind = "thrown"
    /\ config[c].onPaymentSuccess
    /\ Len(response[c][1].body.accepts) = 2

(***************************************************************************)
(* C5: a 402 challenge without x402Version, or whose accepts is absent, no *)
(* list or empty, makes the invocation fail with INVALID_402_RESPONSE; one *)
(* network call is made, no offer is selected, no proof is built and no    *)
(* retry is issued.                                                        *)
(***************************************************************************)
MalformedChallenge(c) ==
  /\ response[c] # None
  /\ response[c][1].status = 402
  /\ response[c][1].body.json = "object"
  /\ \/ response[c][1].body.x402Version = None
     \/ response[c][1].body.acceptsKind # "array"
     \/ response[c][1].body.accepts = <<>>

GuardDone(c) == pc[c] \notin {"fetch", "parse", "select", "guard"} /\ selected[c] # None

FailedWith(c, class) ==
  outcome[c].kind = "thrown" /\ outcome[c].error[1].class = class

C6_CeilingExceededExactly ==
  \A c \in Calls : \A n \in CeilingMicros :
    (CeilingIs(c, n) /\ GuardDone(c)) =>
      /\ FailedWith(c, "MaxAmountExceededError") <=> (SelectedAmount(c) > n)
      /\ FailedWith(c, "MaxAmountExceededError") =>
           /\ outcome[c].error[1].required = selected[c][1].maxAmountRequired
           /\ outcome[c].error[1].max = BigIntToString(BigFromNat(n))
      /\ (SelectedAmount(c) > n) =>
           /\ walletLog[c] = <<>>
           /\ NetCalls(c) = 1
           /\ ~ProofExists(c)

(***************************************************************************)
(* C7: every error that the handling of a 402 raises to the caller has     *)
(* been given to onPaymentError exactly once.                              *)
(***************************************************************************)
C7_ErrorCallbackExactlyOnce ==
  \A c \in Calls :
    (/\ outcome[c].kind = "thrown"
     /\ response[c] # None
     /\ response[c][1].status = 402
     /\ config[c].onPaymentError) =>
      Invoked(c, "onPaymentError") = 1

(***************************************************************************)
(* C8: an onPaymentRequired that throws does not abort the invocation: the *)
(* proof is built, the paid retry is issued and its response returned.     *)
(***************************************************************************)
C8_RequiredCallbackThrowTolerated ==
  \A c \in Calls :
    (Threw(c, "onPaymentRequired") /\ pc[c] = "done") =>
      /\ proof[c] # None
      /\ NetCalls(c) = 2
      /\ (paidResponse[c] # None /\ paidResponse[c][1].status # 402) =>
           outcome[c] = Returned(paidResponse[c][1])

(***************************************************************************)
(* C9: an onPaymentSuccess that throws, after a paid retry that was not    *)
(* answered 402 and carried a settlement record, leaves the invocation     *)
(* successful: the retry response is returned and onPaymentError is not    *)
(* invoked.                                                                *)
(***************************************************************************)
C9_SuccessCallbackThrowTolerated ==
  \A c \in Calls :
    (/\ pc[c] = "done"
     /\ paidResponse[c] # None
     /\ paidResponse[c][1].status # 402
     /\ parseSettlementResponse(paidResponse[c][1].settlement) = "record"
     /\ Threw(c, "onPaymentSuccess")) =>
      /\ outcome[c] = Returned(paidResponse[c][1])
      /\ Invoked(c, "onPaymentError") = 0

(***************************************************************************)
(* C10: after a paid retry that was not answered 402, a missing or         *)
(* malformed x-payment-response header (one that does not decode, or does  *)
(* not parse to a settlement record) gives the retry response as the       *)
(* result, with neither onPaymentSuccess nor onPaymentError invoked.       *)
(***************************************************************************)
MissingOrMalformed(header) == header.kind # "json" \/ header.value # "record"

C10_MalformedSettlementTolerated ==
  \A c \in Calls :
    (/\ pc[c] = "done"
     /\ paidResponse[c] # None
     /\ paidResponse[c][1].status # 402
     /\ MissingOrMalformed(paidResponse[c][1].settlement)) =>
      /\ outcome[c] = Returned(paidResponse[c][1])
      /\ Invoked(c, "onPaymentSuccess") = 0
      /\ Invoked(c, "onPaymentError") = 0

(***************************************************************************)
(* C11: within one dexfraFetch call each of onPaymentRequired,             *)
(* onPaymentSuccess and onPaymentError is invoked at most once (also when  *)
(* a callback throws); onPaymentRequired comes before the other two, of    *)
(* which only one is invoked; and where onPaymentRequired is supplied,     *)
(* onPaymentSuccess is never invoked without it having been invoked.       *)
(***************************************************************************)
CallbackNames == {"onPaymentRequired", "onPaymentSuccess", "onPaymentError"}

C11_CallbacksOnceInOrder ==
  \A c \in Calls :
    /\ \A name \in CallbackNames : Invoked(c, name) <= 1
    /\ \A i, j \in 1..Len(cbLog[c]) :
         i < j => cbLog[c][j].name # "onPaymentRequired"
    /\ Invoked(c, "onPaymentSuccess") = 0 \/ Invoked(c, "onPaymentError") = 0
    /\ (config[c].onPaymentRequired /\ Invoked(c, "onPaymentSuccess") > 0) =>
         cbLog[c][1].name = "onPaymentRequired"

(***************************************************************************)
(* C12: for a non-empty offer list and a preferred network,                *)
(* selectPaymentRequirement returns the first offer in list order whose    *)
(* network equals the preferred one ignoring letter case, and offers[0]    *)
(* when none matches; the result is a member of the list and the same for  *)
(* the same inputs.                                                        *)
(***************************************************************************)
CasePairs == {{"A", "a"}, {"B", "b"}, {"C", "c"}}

\* s and t are the same text up to the case of their letters
SameIgnoringCase(s, t) ==
  /\ Len(s) = Len(t)
  /\ \A i \in 1..Len(s) : s[i] = t[i] \/ {s[i], t[i]} \in CasePairs

C12_FirstMatchElseFirstOffer ==
  \A c \in Calls :
    selected[c] # None =>
      LET offers == challenge[c][1].accepts
          preferred == config[c].network
          result == selected[c][1]
          Matches(i) == SameIgnoringCase(offers[i].network, preferred)
      IN /\ \E i \in 1..Len(offers) : result = offers[i]
         /\ \/ \E i \in 1..Len(offers) :
                 /\ Matches(i)
                 /\ \A j \in 1..(i - 1) : ~Matches(j)
                 /\ result = offers[i]
            \/ /\ \A i \in 1..Len(offers) : ~Matches(i)
               /\ result = offers[1]
         /\ result = selectPaymentRequirement(offers, preferred)

\* the preferred network is met only by the second offer, written in
\* another case, and that offer is the one selected
C12_Witness ==
  \E c \in Calls :
    /\ selected[c] # None
    /\ Len(challenge[c][1].accepts) = 2
    /\ challenge[c][1].accepts[1].network = <<"A">>
    /\ challenge[c][1].accepts[2].network = <<"b">>
    /\ config[c].network = <<"B">>
    /\ selected[c][1] = challenge[c][1].accepts[2]

(***************************************************************************)
(* C13: when the paid retry is answered with any status other than 402,    *)
(* a business error status such as 500 included, dexfraFetch returns that  *)
(* response as it is instead of failing, and onPaymentError is not         *)
(* invoked.                                                                *)
(***************************************************************************)
C13_RetryResponseReturnedAsIs ==
  \A c \in Calls :
    (/\ pc[c] = "done"
     /\ paidResponse[c] # None
     /\ paidResponse[c][1].status # 402) =>
      /\ outcome[c] = Returned(paidResponse[c][1])
      /\ Invoked(c, "onPaymentError") = 0

(***************************************************************************)
(* C14: the paid retry is the original request sent again, to the same     *)
(* URL with the same method, body and caller-supplied headers, plus the    *)
(* header x-payment set to the proof built for the selected offer; the     *)
(* initial probe carries no proof.                                         *)
(***************************************************************************)
C14_RetryIsProbePlusProof ==
  \A c \in Calls :
    /\ NetCalls(c) >= 1 =>
         /\ netLog[c][1].url = RequestInit(c).url
         /\ netLog[c][1].method = RequestInit(c).method
         /\ netLog[c][1].body = RequestInit(c).body
         /\ netLog[c][1].headers.caller = RequestInit(c).headers
         /\ netLog[c][1].headers.xPayment = None
    /\ NetCalls(c) >= 2 =>
         /\ netLog[c][2].url = netLog[c][1].url
         /\ netLog[c][2].method = netLog[c][1].method
         /\ netLog[c][2].body = netLog[c][1].body
         /\ netLog[c][2].headers.caller = netLog[c][1].headers.caller
         /\ netLog[c][2].headers.xPayment # None
         /\ netLog[c][2].headers.xPayment = proof[c]
         /\ proof[c][1] = createPaymentHeader(challenge[c][1].x402Version,
                                              selected[c][1],
                                              proof[c][1].json.timestamp)

C14_Witness ==
  \E c \in Calls :
    /\ NetCalls(c) = 2
    /\ netLog[c][2].headers.xPayment = proof[c]
    /\ netLog[c][2].headers.caller # {}

(***************************************************************************)
(* C15: whenever a paid retry is issued, the proof attached to it was      *)
(* made by handing the signing to config.wallet: an operation of the       *)
(* wallet was invoked after the guard passed and before the retry.         *)
(***************************************************************************)
C15_ProofSignedByWallet ==
  \A c \in Calls : NetCalls(c) = 2 => walletLog[c] # <<>>

(***************************************************************************)
(* C16: two dexfraFetch calls under way at once share no mutable state.    *)
(* Under every interleaving each call's challenge is the body of its own   *)
(* 402 response, its selected offer is from its own challenge, every       *)
(* request it sends goes to its own URL with its own headers, and the      *)
(* proof on its retry is the one built for its own selected offer; and a   *)
(* step of one call changes nothing of the other call, its outcome         *)
(* included.                                                               *)
(***************************************************************************)
\* what invocation c holds
Own(c) ==
  <<pc[c], config[c], headers[c], netLog[c], response[c], challenge[c],
    selected[c], maxAmountWei[c], proof[c], paidResponse[c], cbLog[c],
    walletLog[c], outcome[c]>>

C16_OwnData ==
  \A c \in Calls :
    /\ challenge[c] # None => challenge[c][1] = response[c][1].body
    /\ selected[c] # None =>
         \E i \in 1..Len(challenge[c][1].accepts) :
           selected[c][1] = challenge[c][1].accepts[i]
    /\ proof[c] # None =>
         /\ proof[c][1].json.amount = selected[c][1].maxAmountRequired
         /\ proof[c][1].json.network = selected[c][1].network
    /\ \A i \in 1..Len(netLog[c]) :
         /\ netLog[c][i].url = RequestInit(c).url
         /\ netLog[c][i].body = RequestInit(c).body
         /\ netLog[c][i].headers.xPayment # None =>
              netLog[c][i].headers.xPayment = proof[c]

C16_StepOfOneCallOnly ==
  \A c \in Calls :
    Own(c)' # Own(c) => \A d \in Calls \ {c} : Own(d)' = Own(d)

C16_NoSharedState == [] C16_OwnData /\ [][C16_StepOfOneCallOnly]_vars

\* both calls, given the same config, have sent their paid retry, each
\* with a proof for a different offer
C16_Witness ==
  /\ config["c1"] = config["c2"]
  /\ \A c \in ConcCalls :
       NetCalls(c) = 2 /\ netLog[c][2].headers.xPayment = proof[c]
  /\ proof["c1"] # proof["c2"]

(***************************************************************************)
(* C17: an AdapterWallet asked for an operation its adapter lacks          *)
(* (signTransaction, signAllTransactions or sendTransaction) raises an     *)
(* error instead of doing nothing: the call throws, returns no signed      *)
(* value, and the adapter is not invoked.                                  *)
(***************************************************************************)
C17_MissingAlwaysThrown ==
  /\ \A i \in 1..Len(walletOut) :
       walletOut[i].op \notin adapter.operations =>
         /\ walletOut[i].result.kind = "thrown"
         /\ walletOut[i].result.value = None
         /\ walletOut[i].result.error # None
  /\ \A j \in 1..Len(adapterCalls) : adapterCalls[j] \in adapter.operations

C17_AdapterLeftAlone ==
  (/\ Len(walletOut') = Len(walletOut) + 1
   /\ walletOut'[Len(walletOut')].op \notin adapter.operations) =>
    adapterCalls' = adapterCalls

C17_MissingOperationThrows ==
  [] C17_MissingAlwaysThrown /\ [][C17_AdapterLeftAlone]_vars

\* an adapter that has some operations was asked for one it lacks
C17_Witness ==
  /\ adapter.operations # {}
  /\ \E i \in 1..Len(walletOut) :
       /\ walletOut[i].op \notin adapter.operations
       /\ walletOut[i].result.kind = "thrown"

(***************************************************************************)
(* C18: a settlement record {transactionId, network, amount, timestamp}    *)
(* encoded in the x-payment-response header format (base64 of its JSON)    *)
(* and then decoded by parseSettlementResponse equals the original record, *)
(* for every record.                                                       *)
(***************************************************************************)
C18_SettlementRoundTrip ==
  (codecPc = "done" /\ settled # None) => parsed = settled

(***************************************************************************)
(* C19: the execute of every tool the adapter makes wraps the action's     *)
(* handler: a handler that throws never propagates the error, the tool     *)
(* call returns {success: false, error: <message>, action: <action name>}  *)
(* instead; the result of a handler that returns is returned unchanged.    *)
(***************************************************************************)
C19_HandlerErrorsContained ==
  execution # None =>
    LET e == execution[1]
    IN /\ e.result.kind = "returned"
       /\ e.handler.kind = "returns" => e.result.value = e.handler.value
       /\ e.handler.kind # "returns" =>
            /\ e.result.value[1].success = FALSE
            /\ e.result.value[1].action = Some(e.action.name)
            /\ e.result.value[1].error # None
            /\ e.handler.kind = "throwsError" =>
                 e.result.value[1].error = e.handler.message

\* the handler of a tool threw an Error, and the tool call returned a value
C19_Witness ==
  /\ execution # None
  /\ execution[1].handler.kind = "throwsError"
  /\ execution[1].result.kind = "returned"
  /\ execution[1].result.value[1].success = FALSE

(***************************************************************************)
(* C20: createVercelAITools converts at most 128 actions: of n actions     *)
(* only the first min(n, 128) in list order become tools, each under its   *)
(* action's name, and an action whose tool cannot be created does not      *)
(* keep the others from being converted; getToolStats reports              *)
(* availableTools = min(totalActions, 128) and truncated exactly when      *)
(* totalActions > 128.                                                     *)
(***************************************************************************)
C20_AtMostToolLimit ==
  LET n == Len(actions)
      first == IF n <= 128 THEN n ELSE 128
  IN /\ tools # None =>
          /\ Cardinality(DOMAIN tools[1]) <= 128
          /\ \A key \in DOMAIN tools[1] :
               /\ tools[1][key] \in 1..first
               /\ actions[tools[1][key]].name = key
               /\ actions[tools[1][key]].creatable
          /\ \A i \in 1..first :
               actions[i].creatable => actions[i].name \in DOMAIN tools[1]
     /\ toolStats # None =>
          /\ toolStats[1].totalActions = n
          /\ toolStats[1].availableTools = first
          /\ toolStats[1].truncated = (n > 128)

\* more than 128 actions, one of the first 128 could not be converted, and
\* both functions have answered
C20_Witness ==
  /\ Len(actions) > 128
  /\ \E i \in 1..128 : ~actions[i].creatable
  /\ tools # None
  /\ Cardinality(DOMAIN tools[1]) = 127
  /\ toolStats # None
  /\ toolStats[1].truncated

(***************************************************************************)
(* C22: a failure while the proof is built reaches the caller as a         *)
(* DexfraError with code PAYMENT_CREATION_FAILED and nothing is tried      *)
(* again: no paid retry is issued, so exactly one network call has been    *)
(* made.                                                                   *)
(***************************************************************************)
CreationFailed(c) ==
  /\ outcome[c].kind = "thrown"
  /\ outcome[c].error[1].code = "PAYMENT_CREATION_FAILED"

C22_FailedBuildEndsCall ==
  \A c \in Calls :
    (pc[c] = "build" /\ pc'[c] # "retry") =>
      /\ pc'[c] = "done"
      /\ CreationFailed(c)'
      /\ outcome'[c].error[1].class = "DexfraError"

C22_NoRetryAfterFailedBuild ==
  \A c \in Calls :
    CreationFailed(c) => NetCalls(c) = 1 /\ proof[c] = None /\ pc[c] = "done"

C22_ProofFailureNotRetried ==
  [] C22_NoRetryAfterFailedBuild /\ [][C22_FailedBuildEndsCall]_vars

C22_Witness ==
  \E c \in Calls :
    /\ CreationFailed(c)
    /\ outcome[c].error[1].wraps = "Buffer"
    /\ NetCalls(c) = 1

(***************************************************************************)
(* C23: an error raised while a 402 is handled reaches the caller either   *)
(* as the DexfraError (or subclass) it already was, unwrapped, or, for     *)
(* any other error, wrapped as a DexfraError with code                     *)
(* PAYMENT_PROCESSING_FAILED that carries the original as details.  So     *)
(* whatever the caller catches is a DexfraError, and one with that code    *)
(* carries an original.                                                    *)
(***************************************************************************)
C23_TaxonomyOrWrapped ==
  \A c \in Calls :
    (/\ pc[c] = "done"
     /\ response[c] # None
     /\ response[c][1].status = 402
     /\ outcome[c].kind = "thrown") =>
      /\ IsDexfraError(outcome[c].error[1])
      /\ outcome[c].error[1].code = "PAYMENT_PROCESSING_FAILED" =>
           outcome[c].error[1].wraps # ""

(***************************************************************************)
(* C24: the proof built for a paid retry decodes (base64, then JSON,       *)
(* nothing cut off) to a record whose version is the challenge's           *)
(* x402Version and whose network, recipient, amount, token and scheme are  *)
(* those of the selected offer, the amount being the offer's               *)
(* maxAmountRequired.                                                      *)
(***************************************************************************)
C24_ProofDecodesToOffer ==
  (codecPc = "done" /\ offered # None) =>
    /\ parsed # None
    /\ parsed[1].version = offered[1].x402Version
    /\ parsed[1].network = offered[1].requirement.network
    /\ parsed[1].recipient = offered[1].requirement.recipient
    /\ parsed[1].amount = offered[1].requirement.maxAmountRequired
    /\ parsed[1].token = offered[1].requirement.token
    /\ parsed[1].scheme = offered[1].requirement.scheme

\* a proof for an offer whose network is the euro sign and whose recipient
\* has an accent, with a token, was built and read back
C24_Witness ==
  /\ codecPc = "done"
  /\ offered # None
  /\ offered[1].requirement.network = <<8364>>
  /\ offered[1].requirement.recipient = <<233>>
  /\ offered[1].requirement.token # None
  /\ parsed # None
  /\ parsed[1].network = <<8364>>

(***************************************************************************)
(* C25: the guard takes the ceiling in base units to be exactly            *)
(* config.maxAmount times 10^6 and compares it with maxAmountRequired as   *)
(* integers of any size: for a ceiling of at most 6 decimal places the     *)
(* offer is rejected exactly when its amount is greater than that product. *)
(***************************************************************************)
C25_GuardStep ==
  \A c \in Calls : \A n \in CeilingMicros :
    (pc[c] = "guard" /\ pc'[c] # "guard" /\ CeilingIs(c, n)) =>
      /\ maxAmountWei'[c] = Some(BigFromNat(n))
      /\ pc'[c] # "notify" <=> SelectedAmount(c) > n

C25_CeilingTimesMillionExactly == [][C25_GuardStep]_vars

(***************************************************************************)
(* C26: when the initial request is rejected by the transport, the caller  *)
(* gets that rejection as it is, no callback is invoked and no other       *)
(* request is made; when the paid retry is rejected by the transport, the  *)
(* caller gets a DexfraError PAYMENT_PROCESSING_FAILED that wraps the      *)
(* rejection, and onPaymentError has been invoked once, with that error.   *)
(***************************************************************************)
TransportFailure == Err("TypeError", "", "fetch")

ProbeRejected(c) == pc[c] = "done" /\ NetCalls(c) >= 1 /\ response[c] = None

RetryRejected(c) == pc[c] = "done" /\ NetCalls(c) = 2 /\ paidResponse[c] = None

C26_TransportFailures ==
  \A c \in Calls :
    /\ ProbeRejected(c) =>
         /\ outcome[c] = Thrown(TransportFailure)
         /\ cbLog[c] = <<>>
         /\ NetCalls(c) = 1
    /\ RetryRejected(c) =>
         /\ outcome[c] = Thrown(Wrapped(TransportFailure))
         /\ config[c].onPaymentError =>
              /\ Invoked(c, "onPaymentError") = 1
              /\ \A i \in Invocations(c, "onPaymentError") :
                   cbLog[c][i].error = Some(Wrapped(TransportFailure))

(***************************************************************************)
(* C27: a 402 response whose body is not JSON ends the call with a         *)
(* DexfraError of code PAYMENT_PROCESSING_FAILED that wraps the parse      *)
(* error; onPaymentError has been invoked once, with that error; no offer  *)
(* has been selected, no proof built and no second request made.           *)
(***************************************************************************)
BodyNotJSON(c) ==
  /\ pc[c] = "done"
  /\ response[c] # None
  /\ IsPaymentRequired(response[c][1].status)
  /\ response[c][1].body.json = "invalid"

ParseFailure == Wrapped(Err("SyntaxError", "", "response.json"))

C27_UnparsableChallengeFails ==
  \A c \in Calls :
    BodyNotJSON(c) =>
      /\ outcome[c] = Thrown(ParseFailure)
      /\ config[c].onPaymentError =>
           /\ Invoked(c, "onPaymentError") = 1
           /\ \A i \in Invocations(c, "onPaymentError") :
                cbLog[c][i].error = Some(ParseFailure)
      /\ selected[c] = None
      /\ ~ProofExists(c)
      /\ NetCalls(c) = 1

(***************************************************************************)
(* C21: discoverAPIs called with the filters category c and maxPrice p     *)
(* returns only items whose category is c and whose price is at most p, a  *)
(* price equal to p included.                                              *)
(***************************************************************************)
\* a number of thousandths written as String writes it: digits, then
\* possibly a point and up to three digits
ParsePrice(text) ==
  LET whole == ReadDigits(text, 1, 0)
      frac == SubSeq(text, whole.next + 1, Len(text))
  IN whole.num * 1000
       + (IF frac = <<>> THEN 0
          ELSE ReadDigits(frac, 1, 0).num * Pow10(3 - Len(frac)))

\* the item is one the query asks for
Satisfies(item, q) ==
  \A i \in 1..Len(q) :
    /\ q[i].name = "category" => item.category = q[i].value
    /\ q[i].name = "minPrice" => item.price >= ParsePrice(q[i].value)
    /\ q[i].name = "maxPrice" => item.price <= ParsePrice(q[i].value)

\* discovery has returned for the filters category c and maxPrice p
DiscoveredFor(c, p) ==
  /\ discoveryPc = "done"
  /\ params[1].category = Some(c)
  /\ params[1].maxPrice = Some(p)
  /\ discovery[1].kind = "returned"

ReturnedItems == {discovery[1].apis[i] : i \in 1..Len(discovery[1].apis)}

\* the claim as it stands
C21_OnlyMatchingItems ==
  \A c \in Categories \cup {<<>>} : \A p \in Prices \cup {0} :
    DiscoveredFor(c, p) =>
      \A item \in ReturnedItems : item.category = c /\ item.price <= p

\* as amended: the filters are sent to the marketplace as the parameters
\* category = c and maxPrice = String(p), the items of the answer are
\* returned as they are, and so the items returned are of category c and
\* of a price of at most p whenever the marketplace answers with items that
\* satisfy the query it was sent
C21_FiltersSentAnswerReturned ==
  \A c \in Categories : \A p \in Prices \cup {0} :
    (discoveryPc = "done" /\ params[1].category = Some(c)
       /\ params[1].maxPrice = Some(p)) =>
      /\ \E i \in 1..Len(query[1]) : query[1][i] = Param("category", c)
      /\ \E i \in 1..Len(query[1]) : query[1][i] = Param("maxPrice", PriceText(p))
      /\ listing[1].apis # None /\ listing[1].ok =>
           discovery[1] = Found(listing[1].apis[1])
      /\ (DiscoveredFor(c, p)
            /\ \A item \in ReturnedItems : Satisfies(item, query[1])) =>
           \A item \in ReturnedItems : item.category = c /\ item.price <= p

\* the marketplace answered the filters "T" and 0.01 with an item of that
\* category at exactly that price, and discovery returned it
C21_Witness ==
  /\ DiscoveredFor(<<84>>, 10)
  /\ discovery[1].apis = <<[category |-> <<84>>, price |-> 10]>>
  /\ Satisfies(discovery[1].apis[1], query[1])

(***************************************************************************)
(* C28: after any calls of use, returning or throwing, the names of the    *)
(* entries of agent.actions are pairwise distinct, the three built-in      *)
(* actions are still present, and no key of agent.methods has been bound   *)
(* anew to a method of another plugin.                                     *)
(***************************************************************************)
ActionNames == {agentActions[i].name : i \in 1..Len(agentActions)}

C28_ActionsDistinctBuiltInsKept ==
  /\ \A i, j \in 1..Len(agentActions) :
       agentActions[i].name = agentActions[j].name => i = j
  /\ \A i \in 1..Len(BuiltInActions) :
       Len(agentActions) >= i /\ agentActions[i] = ActionOf(BuiltInActions[i], "core")

C28_NoKeyRebound ==
  \A n \in DOMAIN methods :
    methods[n] # None => methods'[n] = methods[n]

C28_RegistryStaysConsistent ==
  [] C28_ActionsDistinctBuiltInsKept /\ [][C28_NoKeyRebound]_vars

\* a call of use has thrown on a conflict after another had returned, and
\* both have left methods and actions in the agent
C28_Witness ==
  /\ \E i, j \in 1..Len(uses) :
       /\ i < j
       /\ uses[i].result = "returned" /\ uses[i].initialized
       /\ uses[j].result = "thrown" /\ uses[j].cause = "method"
  /\ methods["a"] = Some("p1")
  /\ methods["b"] = Some("p2")
  /\ Len(agentActions) > Len(BuiltInActions)

(***************************************************************************)
(* C29: a call of use that throws because a method name or an action name  *)
(* is taken leaves the agent as it was: plugins, methods and actions are   *)
(* as before the call, and hasPlugin of the plugin's name is false.        *)
(***************************************************************************)
\* the step is a call of use that ends as the last entry of uses' tells
UseStep == Len(uses') = Len(uses) + 1

LastUse == uses'[Len(uses')]

C29_ConflictStep ==
  (UseStep /\ LastUse.result = "thrown" /\ LastUse.cause \in {"method", "action"}) =>
    /\ plugins' = plugins
    /\ methods' = methods
    /\ agentActions' = agentActions
    /\ \A i \in 1..Len(plugins') : plugins'[i].name # LastUse.name

C29_ConflictLeavesAgentUnchanged == [][C29_ConflictStep]_vars

(***************************************************************************)
(* C30: use with a plugin whose name is registered changes nothing:        *)
(* plugins, methods and actions stay, plugin.initialize is not called and  *)
(* the call returns; and hasPlugin(name) is true exactly for the names of  *)
(* the plugins for which a call of use has returned.                       *)
(***************************************************************************)
C30_RepeatedUseStep ==
  (UseStep /\ hasPlugin(LastUse.name)) =>
    /\ plugins' = plugins
    /\ methods' = methods
    /\ agentActions' = agentActions
    /\ ~LastUse.initialized
    /\ LastUse.result = "returned"

C30_RegisteredIffUseReturned ==
  \A plugin \in Plugins :
    hasPlugin(plugin.name) <=>
      \E i \in 1..Len(uses) : uses[i].name = plugin.name /\ uses[i].result = "returned"

C30_UseIdempotentPerName ==
  [] C30_RegisteredIffUseReturned /\ [][C30_RepeatedUseStep]_vars

\* use was called with p1 and then with p4, another plugin of the same
\* name, and after a throwing call of use with p2
C30_Witness ==
  /\ Len(uses) = 3
  /\ uses[1].plugin = "p1" /\ uses[1].result = "returned" /\ uses[1].initialized
  /\ uses[2].plugin = "p2" /\ uses[2].result = "thrown"
  /\ uses[3].plugin = "p4" /\ uses[3].result = "returned" /\ ~uses[3].initialized
  /\ getPluginNames = <<"x">>
  /\ ~hasPlugin("y")

====
